---- MODULE Spec2Model ----
(***************************************************************************)
(* Condition monitoring service of the commute optimizer:                  *)
(* src/commute_optimizer/services/condition_monitoring.py                  *)
(*                                                                         *)
(* The module models ConditionMonitoringService as a state machine of      *)
(* asyncio coroutines.  One action is one run of a coroutine between two   *)
(* suspension points (an await that yields to the event loop); everything  *)
(* the code does between two suspension points is one atomic step.         *)
(* Numeric metric values are integers; a change magnitude is an exact      *)
(* rational [num, den], with den = 0 standing for float('inf').            *)
(***************************************************************************)
EXTENDS Integers, Sequences, FiniteSets, TLC

VARIABLES
    is_monitoring,       \* self._is_monitoring
    monitoring_tasks,    \* self._monitoring_tasks: task name -> index into tasks
    tasks,               \* the asyncio.Task objects created so far
    monitoring_targets,  \* self._monitoring_targets: the dict's entry array
    objs,                \* the MonitoringTarget objects created so far
    update_callbacks,    \* self._update_callbacks
    change_history,      \* self._change_history
    calls,               \* API coroutines in flight (stop_monitoring, check_conditions_now)
    now,                 \* the reading of datetime.now(); no step of the monitor advances it
    fetches,             \* provider calls begun so far
    api_calls,           \* calls of the service's public methods so far
    last_ok,             \* history variable: last successful fetch per object and type
    ev,                  \* history variable: what the last step did
    cls,                 \* input and result of one classifier call (SpecClassify)
    update_triggers,     \* RecommendationUpdateTrigger.update_triggers
    route_update_callbacks,           \* RecommendationUpdateTrigger._route_update_callbacks
    recommendation_update_callbacks,  \* ..._recommendation_update_callbacks
    max_size             \* self._max_history_size

vars == <<is_monitoring, monitoring_tasks, tasks, monitoring_targets, objs,
          update_callbacks, change_history, calls, now, fetches, api_calls, last_ok, ev,
          cls, update_triggers, route_update_callbacks, recommendation_update_callbacks,
          max_size>>

monitor_vars == <<is_monitoring, monitoring_tasks, tasks, monitoring_targets, objs,
                  update_callbacks, change_history, calls, now, fetches, api_calls,
                  last_ok, ev>>

trigger_vars == <<update_triggers, route_update_callbacks, recommendation_update_callbacks>>

-----------------------------------------------------------------------------
(* Bounds of the model *)

\* threshold levels of the arbitrary ladders given to the classifier: 0..MaxLevel
MaxLevel == 2
\* small metric values given to the classifier: -MaxVal..MaxVal
MaxVal == 2
\* add_monitoring_target calls (MonitoringTarget objects created)
MaxAdds == 2
\* start_monitoring calls that start the monitor (five tasks each)
MaxStarts == 2
\* provider calls begun
MaxFetches == 2
\* calls of the public methods
MaxOps == 4
\* API coroutines suspended at the same time
MaxCalls == 2
\* registrations in self._update_callbacks
MaxCallbacks == 2
\* self._max_history_size (1000 in the source), scaled to the histories the model reaches
max_history_size == 2
\* the length of the slice of get_monitoring_status's recent_changes (10 in the
\* source, line 389), scaled to the histories the model reaches
recent_changes_size == 2
\* registrations in each callback list of the trigger
MaxTriggerCallbacks == 2
\* calls of the public methods of the monitor and the trigger while batches are
\* dispatched (SpecTrigger)
MaxTriggerOps == 3
\* entries the history is grown to in SpecHistory
MaxHistoryLen == 4
\* hours the clock of SpecHistory advances
MaxNow == 2
\* values of _max_history_size in SpecHistory: 1..MaxMaxSize
MaxMaxSize == 3
\* hours_back arguments of get_change_history: 0..MaxHoursBack
MaxHoursBack == 2

-----------------------------------------------------------------------------
(* Data model *)

\* class ConditionType, in declaration order
ConditionType == <<"traffic", "transit", "weather", "parking">>

AllTypes == {ConditionType[i] : i \in 1..Len(ConditionType)}

\* class ChangeSignificance; the rank is the order MINOR < MODERATE < MAJOR < CRITICAL
ChangeSignificance == <<"minor", "moderate", "major", "critical">>

SigRank(s) == CHOOSE i \in 1..Len(ChangeSignificance) : ChangeSignificance[i] = s

\* dataclass ConditionThreshold
ConditionThreshold(ct, metric, minor, moderate, major, critical, cmp) ==
    [condition_type |-> ct, metric |-> metric,
     minor_threshold |-> minor, moderate_threshold |-> moderate,
     major_threshold |-> major, critical_threshold |-> critical,
     comparison_type |-> cmp]

\* _initialize_default_thresholds: the table, in list order
initialize_default_thresholds ==
    << ConditionThreshold("traffic", "delay_minutes", 5, 10, 20, 30, "absolute"),
       ConditionThreshold("traffic", "average_speed_kmh", 10, 20, 30, 40, "percentage"),
       ConditionThreshold("traffic", "congestion_level", 1, 2, 3, 4, "categorical"),
       ConditionThreshold("transit", "delay_minutes", 3, 8, 15, 25, "absolute"),
       ConditionThreshold("transit", "service_status", 1, 2, 3, 4, "categorical"),
       ConditionThreshold("weather", "visibility_km", 2, 5, 8, 10, "absolute"),
       ConditionThreshold("weather", "precipitation_probability", 20, 40, 60, 80, "absolute"),
       ConditionThreshold("weather", "condition", 1, 2, 3, 4, "categorical"),
       ConditionThreshold("parking", "availability", 1, 2, 3, 4, "categorical"),
       ConditionThreshold("parking", "average_cost_per_hour", 1, 3, 5, 8, "absolute") >>

-----------------------------------------------------------------------------
(* Change classifier: _calculate_change_significance and its helpers *)

Abs(x) == IF x < 0 THEN -x ELSE x

\* a magnitude: the rational num/den, or float('inf') when den = 0
Mag(n, d) == [num |-> n, den |-> d]

MagInf == Mag(1, 0)

MagZero == Mag(0, 1)

\* change_magnitude >= t, for a finite threshold t
MagGeq(m, t) == m.den = 0 \/ m.num >= t * m.den

\* change_magnitude > 0
MagPositive(m) == m.den = 0 \/ m.num > 0

\* m1 <= m2 and m1 = m2 as numbers
MagLeq(m1, m2) ==
    IF m2.den = 0 THEN TRUE
    ELSE IF m1.den = 0 THEN FALSE
    ELSE m1.num * m2.den <= m2.num * m1.den

MagEq(m1, m2) == MagLeq(m1, m2) /\ MagLeq(m2, m1)

\* _get_category_values: the ordinal table of a (condition type, metric) pair
get_category_values(condition_type, metric) ==
    IF condition_type = "traffic" /\ metric = "congestion_level"
    THEN [light |-> 1, moderate |-> 2, heavy |-> 3, severe |-> 4]
    ELSE IF condition_type = "transit" /\ metric = "service_status"
    THEN [normal |-> 1, minor_delays |-> 2, delays |-> 3, major_delays |-> 4,
          disrupted |-> 5, suspended |-> 6, cancelled |-> 7]
    ELSE IF condition_type = "weather" /\ metric = "condition"
    THEN [clear |-> 1, cloudy |-> 2, light_rain |-> 3, rain |-> 4, heavy_rain |-> 5,
          snow |-> 6, heavy_snow |-> 7, fog |-> 8, storm |-> 9, ice |-> 10]
    ELSE IF condition_type = "parking" /\ metric = "availability"
    THEN [abundant |-> 1, moderate |-> 2, limited |-> 3, scarce |-> 4]
    ELSE <<>>

\* a variant for mutation: a name the table lacks takes the lowest ordinal of the
\* table instead of 0
CategoryGetLowest(category_values, value) ==
    IF value \in DOMAIN category_values THEN category_values[value] ELSE 1

\* category_values.get(str(value), 0); values are category names, which str() leaves
\* as they are
CategoryGet(category_values, value) ==
    IF value \in DOMAIN category_values THEN category_values[value] ELSE 0

\* a variant of the magnitude for mutation: a zero old value in percentage mode
\* gives magnitude 0 whatever the new value
ChangeMagnitudeZeroBase(threshold, old_value, new_value) ==
    IF threshold.comparison_type = "absolute"
    THEN Mag(Abs(new_value - old_value), 1)
    ELSE IF threshold.comparison_type = "percentage"
    THEN IF old_value = 0
         THEN MagZero
         ELSE Mag(Abs((new_value - old_value) * 100), Abs(old_value))
    ELSE IF threshold.comparison_type = "categorical"
    THEN LET category_values == get_category_values(threshold.condition_type, threshold.metric)
             old_numeric == CategoryGet(category_values, old_value)
             new_numeric == CategoryGet(category_values, new_value)
         IN  Mag(Abs(new_numeric - old_numeric), 1)
    ELSE MagZero

\* lines 648-665: the magnitude by comparison mode
ChangeMagnitude(threshold, old_value, new_value) ==
    IF threshold.comparison_type = "absolute"
    THEN Mag(Abs(new_value - old_value), 1)
    ELSE IF threshold.comparison_type = "percentage"
    THEN IF old_value = 0
         THEN (IF new_value # 0 THEN MagInf ELSE MagZero)
         ELSE Mag(Abs((new_value - old_value) * 100), Abs(old_value))
    ELSE IF threshold.comparison_type = "categorical"
    THEN LET category_values == get_category_values(threshold.condition_type, threshold.metric)
             old_numeric == CategoryGet(category_values, old_value)
             new_numeric == CategoryGet(category_values, new_value)
         IN  Mag(Abs(new_numeric - old_numeric), 1)
    ELSE MagZero

\* a variant of the ladder for mutation: the minor rung yields MINOR
SignificanceLevelFourTiers(threshold, change_magnitude) ==
    IF MagGeq(change_magnitude, threshold.critical_threshold) THEN "critical"
    ELSE IF MagGeq(change_magnitude, threshold.major_threshold) THEN "major"
    ELSE IF MagGeq(change_magnitude, threshold.moderate_threshold) THEN "moderate"
    ELSE "minor"

\* a variant of the ladder for mutation: evaluated from the bottom up, the lowest
\* rung reached decides
SignificanceLevelBottomUp(threshold, change_magnitude) ==
    IF MagGeq(change_magnitude, threshold.minor_threshold) THEN "moderate"
    ELSE IF MagGeq(change_magnitude, threshold.moderate_threshold) THEN "moderate"
    ELSE IF MagGeq(change_magnitude, threshold.major_threshold) THEN "major"
    ELSE IF MagGeq(change_magnitude, threshold.critical_threshold) THEN "critical"
    ELSE "minor"

\* lines 667-677: the ladder, evaluated from the top down
SignificanceLevel(threshold, change_magnitude) ==
    IF MagGeq(change_magnitude, threshold.critical_threshold) THEN "critical"
    ELSE IF MagGeq(change_magnitude, threshold.major_threshold) THEN "major"
    ELSE IF MagGeq(change_magnitude, threshold.moderate_threshold) THEN "moderate"
    ELSE IF MagGeq(change_magnitude, threshold.minor_threshold) THEN "moderate"
    ELSE "minor"

\* _calculate_change_significance: (change_magnitude, significance)
calculate_change_significance(threshold, old_value, new_value) ==
    LET change_magnitude == ChangeMagnitude(threshold, old_value, new_value)
    IN  [change_magnitude |-> change_magnitude,
         significance |-> SignificanceLevel(threshold, change_magnitude)]

-----------------------------------------------------------------------------
(* The provider boundary: what _collect_condition_data can return *)

\* Target ids and the origin/destination pairs given to add_monitoring_target; the
\* empty string is a str like any other
TargetIds == {"a", "b", ""}

Routes == {"r1"}

\* the conditions argument of add_monitoring_target: None (the default), or a set
ConditionArgs == { [given |-> FALSE, conditions |-> {}],
                   [given |-> TRUE, conditions |-> {"traffic"}] }

\* The snapshots (asdict of TrafficData, TransitData, WeatherData, ParkingData, or
\* the mapping another provider returns) a fetch of a type can yield.  "pattern"
\* has no threshold entry; the third traffic snapshot lacks congestion_level.
ProviderData(condition_type) ==
    IF condition_type = "traffic" THEN
        { [congestion_level |-> "light", pattern |-> "flowing",
           average_speed_kmh |-> 50, delay_minutes |-> 10],
          [congestion_level |-> "heavy", pattern |-> "stop_and_go",
           average_speed_kmh |-> 25, delay_minutes |-> 42],
          [pattern |-> "slow_moving", average_speed_kmh |-> 50, delay_minutes |-> 10] }
    ELSE IF condition_type = "transit" THEN
        { [service_status |-> "normal", delay_minutes |-> 2],
          [service_status |-> "major_delays", delay_minutes |-> 2] }
    ELSE IF condition_type = "weather" THEN
        { [condition |-> "clear", visibility_km |-> 10, precipitation_probability |-> 10] }
    ELSE
        { [availability |-> "moderate", average_cost_per_hour |-> 5] }

\* the registered callbacks: a plain function and a coroutine function that suspends
Callbacks == {"cb_sync", "cb_async"}

-----------------------------------------------------------------------------
(* MonitoringTarget objects and the target dict *)

\* target.baseline_data: None, or a dict from condition type to snapshot; None and
\* the dict just created at line 504 are both the function with the empty domain
NoBaseline == [t \in {} |-> 0]

\* dataclass MonitoringTarget (lines 270-277); origin and destination are one value
MonitoringTarget(target_id, route, conditions) ==
    [target_id |-> target_id, route |-> route, monitoring_conditions |-> conditions,
     last_checked |-> -1, baseline_data |-> NoBaseline]

\* a variant for mutation: the dict is replaced by one that holds the new entry only
SetBaselineOnly(baseline_data, condition_type, current_data) ==
    [t \in {condition_type} |-> current_data]

\* baseline_data[baseline_key] = current_data
SetBaseline(baseline_data, condition_type, current_data) ==
    [t \in DOMAIN baseline_data \cup {condition_type} |->
        IF t = condition_type THEN current_data ELSE baseline_data[t]]

\* A Python dict keeps its entries in insertion order in an array; a deleted entry
\* stays as a dummy (0 here) and a new key is appended.  monitoring_targets is that
\* array, of indexes into objs.  (CPython compacts the array only when a sixth key is
\* inserted into a dict of this size; MaxAdds stays below that.)
DictUsed(entries) == Cardinality({i \in 1..Len(entries) : entries[i] # 0})

\* the slot of key target_id, or 0
DictSlot(entries, target_id) ==
    IF \E i \in 1..Len(entries) : entries[i] # 0 /\ objs[entries[i]].target_id = target_id
    THEN CHOOSE i \in 1..Len(entries) : entries[i] # 0 /\ objs[entries[i]].target_id = target_id
    ELSE 0

\* iter(d.values()): position in the entry array, size at creation, items still expected
DictIter(entries) == [pos |-> 1, used |-> DictUsed(entries), len |-> DictUsed(entries)]

NoIter == [pos |-> 0, used |-> 0, len |-> 0]

RECURSIVE SkipDummies(_, _)
SkipDummies(entries, i) ==
    IF i <= Len(entries) /\ entries[i] = 0 THEN SkipDummies(entries, i + 1) ELSE i

\* next(iterator) of CPython's dict iterators: RuntimeError when the dict changed size,
\* or when an entry turns up after all expected items were yielded
DictNext(entries, it) ==
    IF it.used # DictUsed(entries)
    THEN [kind |-> "error", obj |-> 0, it |-> it]
    ELSE LET i == SkipDummies(entries, it.pos)
         IN  IF i > Len(entries) THEN [kind |-> "stop", obj |-> 0, it |-> it]
             ELSE IF it.len = 0 THEN [kind |-> "error", obj |-> 0, it |-> it]
             ELSE [kind |-> "item", obj |-> entries[i],
                   it |-> [pos |-> i + 1, used |-> it.used, len |-> it.len - 1]]

-----------------------------------------------------------------------------
(* Change detection: _detect_changes and _check_condition_for_target *)

\* dataclass ConditionChange; description is a text rendering of the other fields
ConditionChange(condition_type, metric, old_value, new_value, result, timestamp, location_key) ==
    [condition_type |-> condition_type, metric |-> metric,
     old_value |-> old_value, new_value |-> new_value,
     change_magnitude |-> result.change_magnitude, significance |-> result.significance,
     timestamp |-> timestamp, location_key |-> location_key]

\* a variant for mutation: every compared metric is recorded as a change
IsRecordedAlways(result) == TRUE

\* a variant for mutation: `>= 0` in place of `> 0`
IsRecordedNonNegative(result) ==
    result.significance # "minor" \/ MagGeq(result.change_magnitude, 0)

\* line 606: the filter on what is recorded as a change
IsRecorded(result) ==
    result.significance # "minor" \/ MagPositive(result.change_magnitude)

\* _detect_changes, from table entry i on: the changes appended, in table order
RECURSIVE DetectFrom(_, _, _, _, _, _)
DetectFrom(i, condition_type, baseline_data, current_data, location_key, timestamp) ==
    IF i > Len(initialize_default_thresholds) THEN <<>>
    ELSE LET threshold == initialize_default_thresholds[i]
             metric == threshold.metric
             rest == DetectFrom(i + 1, condition_type, baseline_data, current_data,
                                location_key, timestamp)
         IN  IF threshold.condition_type # condition_type THEN rest
             ELSE IF metric \notin DOMAIN baseline_data \/ metric \notin DOMAIN current_data
             THEN rest
             ELSE LET result == calculate_change_significance(
                                    threshold, baseline_data[metric], current_data[metric])
                  IN  IF IsRecorded(result)
                      THEN <<ConditionChange(condition_type, metric, baseline_data[metric],
                                             current_data[metric], result, timestamp,
                                             location_key)>> \o rest
                      ELSE rest

detect_changes(condition_type, baseline_data, current_data, location_key, timestamp) ==
    DetectFrom(1, condition_type, baseline_data, current_data, location_key, timestamp)

\* the outcomes of a provider call: it raised, or it returned a snapshot
FetchFailed == [ok |-> FALSE]

FetchOk(current_data) == [ok |-> TRUE, data |-> current_data]

FetchOutcomes(condition_type) ==
    {FetchFailed} \cup {FetchOk(d) : d \in ProviderData(condition_type)}

AllFetchOutcomes == UNION {FetchOutcomes(t) : t \in AllTypes}

\* a variant for mutation: a first reading returns before the snapshot is stored
check_condition_for_target_unstored(target, condition_type, fetched, timestamp) ==
    IF ~fetched.ok \/ condition_type \notin DOMAIN target.baseline_data
    THEN [baseline_data |-> target.baseline_data, changes |-> <<>>]
    ELSE [baseline_data |-> SetBaseline(target.baseline_data, condition_type, fetched.data),
          changes |-> detect_changes(condition_type, target.baseline_data[condition_type],
                                     fetched.data, target.route, timestamp)]

\* a variant for mutation: the baseline is replaced only when the comparison
\* produced a change
check_condition_for_target_on_change(target, condition_type, fetched, timestamp) ==
    IF ~fetched.ok
    THEN [baseline_data |-> target.baseline_data, changes |-> <<>>]
    ELSE IF condition_type \notin DOMAIN target.baseline_data
    THEN [baseline_data |-> SetBaseline(target.baseline_data, condition_type, fetched.data),
          changes |-> <<>>]
    ELSE LET changes == detect_changes(condition_type,
                                       target.baseline_data[condition_type],
                                       fetched.data, target.route, timestamp)
         IN  [baseline_data |-> IF changes = <<>> THEN target.baseline_data
                                ELSE SetBaseline(target.baseline_data, condition_type,
                                                 fetched.data),
              changes |-> changes]

\* a variant for mutation: a baseline entry that exists is compared against but not
\* replaced
check_condition_for_target_first_wins(target, condition_type, fetched, timestamp) ==
    IF ~fetched.ok
    THEN [baseline_data |-> target.baseline_data, changes |-> <<>>]
    ELSE IF condition_type \notin DOMAIN target.baseline_data
    THEN [baseline_data |-> SetBaseline(target.baseline_data, condition_type, fetched.data),
          changes |-> <<>>]
    ELSE [baseline_data |-> target.baseline_data,
          changes |-> detect_changes(condition_type, target.baseline_data[condition_type],
                                     fetched.data, target.route, timestamp)]

\* _check_condition_for_target after the provider call ended with `fetched`:
\* the new baseline_data and the changes returned (all of them appended to the
\* history by _detect_changes)
check_condition_for_target(target, condition_type, fetched, timestamp) ==
    IF ~fetched.ok
    THEN [baseline_data |-> target.baseline_data, changes |-> <<>>]
    ELSE IF condition_type \notin DOMAIN target.baseline_data
    THEN [baseline_data |-> SetBaseline(target.baseline_data, condition_type, fetched.data),
          changes |-> <<>>]
    ELSE [baseline_data |-> SetBaseline(target.baseline_data, condition_type, fetched.data),
          changes |-> detect_changes(condition_type, target.baseline_data[condition_type],
                                     fetched.data, target.route, timestamp)]

-----------------------------------------------------------------------------
(* Tasks, callbacks and the history variable ev *)

\* the keys of self._monitoring_tasks in insertion order (lines 221-228)
TaskNames == <<"monitor_traffic", "monitor_transit", "monitor_weather",
               "monitor_parking", "cleanup">>

\* the baseline entry of a target for a condition type as a sequence: empty when
\* there is none
StoredEntry(all_objs, obj, condition_type) ==
    IF condition_type \in DOMAIN all_objs[obj].baseline_data
    THEN <<all_objs[obj].baseline_data[condition_type]>>
    ELSE <<>>

\* an asyncio.Task running _monitor_condition_type(condition_type) or
\* _cleanup_change_history: where it is suspended (pc), whether cancel() was called
\* on it since (must_cancel), the locals of the tick in progress, and as history
\* the number of _check_condition_for_target calls it completed (checks) and the
\* baseline entry that was stored when its provider call began (seen).  pc is
\*   "top"      before the loop test (not yet run, or in the sleep that ends a tick)
\*   "fetch"    in the provider call for target cur
\*   "notify"   in the coroutine callback at index cbi of the callback list
\*   "backoff"  in the sleep of the except clause (line 459 or 814)
\*   "done"     ended
NewTask(name, condition_type) ==
    [name |-> name, condition_type |-> condition_type, pc |-> "top",
     must_cancel |-> FALSE, it |-> NoIter, cur |-> 0, changes |-> <<>>, cbi |-> 0,
     checks |-> 0, seen |-> <<>>]

TaskAt(t, pc) ==
    [t EXCEPT !.pc = pc, !.must_cancel = FALSE, !.it = NoIter, !.cur = 0,
              !.changes = <<>>, !.cbi = 0, !.seen = <<>>]

Live(t) == t.pc # "done"

\* no API coroutine in a slot of calls
Idle == [op |-> "idle"]

\* What the last step did (a tick that finds nothing to do and goes back to sleep
\* is not recorded: it is a stuttering step).  check holds one record when the step completed a
\* _check_condition_for_target; invoked are the callbacks called with batch;
\* returned tells how an API call ended in this step, result what it returned, args
\* the arguments of the call.
EvNone ==
    [op |-> "init", task |-> 0, call |-> 0, check |-> <<>>, hist_len |-> 0,
     invoked |-> <<>>, batch |-> <<>>, returned |-> "", result |-> <<>>,
     spawned |-> 0, raised |-> FALSE, was_monitoring |-> FALSE, args |-> <<>>]

Ev(op) == [EvNone EXCEPT !.op = op, !.hist_len = Len(change_history)]

CheckEv(obj, condition_type, fetched, res, acc, seen) ==
    [obj |-> obj, condition_type |-> condition_type, fetched |-> fetched,
     before |-> objs[obj].baseline_data, last_before |-> last_ok[obj],
     changes |-> res.changes, acc |-> acc, seen |-> seen]

\* _notify_callbacks from list index idx on (lines 785-793): the callbacks called in
\* this step, and the index of the coroutine callback the loop is suspended in (0:
\* the loop ended)
RECURSIVE NotifyRun(_, _)
NotifyRun(callbacks, idx) ==
    IF idx > Len(callbacks) THEN [invoked |-> <<>>, at |-> 0]
    ELSE IF callbacks[idx] = "cb_async" THEN [invoked |-> <<callbacks[idx]>>, at |-> idx]
    ELSE LET rest == NotifyRun(callbacks, idx + 1)
         IN  [invoked |-> <<callbacks[idx]>> \o rest.invoked, at |-> rest.at]

-----------------------------------------------------------------------------
(* The poller: _monitor_condition_type *)

\* lines 443-444: the next target of the dict that monitors condition_type
RECURSIVE PollerScan(_, _, _)
PollerScan(entries, it, condition_type) ==
    LET r == DictNext(entries, it)
    IN  IF r.kind = "item" /\ condition_type \notin objs[r.obj].monitoring_conditions
        THEN PollerScan(entries, r.it, condition_type)
        ELSE r

\* a variant for mutation: the task goes to its sleep while a coroutine callback
\* has not returned
PollerNotifyDetached(t, changes, idx) ==
    LET n == NotifyRun(update_callbacks, idx)
    IN  [task |-> TaskAt(t, "top"),
         invoked |-> n.invoked, batch |-> IF n.invoked = <<>> THEN <<>> ELSE changes,
         fetch |-> FALSE, raised |-> FALSE]

\* lines 449-453: the batch goes to the callbacks, then the task sleeps
PollerNotify(t, changes, idx) ==
    LET n == NotifyRun(update_callbacks, idx)
    IN  [task |-> IF n.at = 0 THEN TaskAt(t, "top")
                  ELSE [TaskAt(t, "notify") EXCEPT !.changes = changes, !.cbi = n.at],
         invoked |-> n.invoked, batch |-> IF n.invoked = <<>> THEN <<>> ELSE changes,
         fetch |-> FALSE, raised |-> FALSE]

\* a variant for mutation: an exception in a tick ends the polling loop
PollerAdvanceFatal(t, it, changes) ==
    LET r == PollerScan(monitoring_targets, it, t.condition_type)
    IN  IF r.kind = "item"
        THEN [task |-> [TaskAt(t, "fetch") EXCEPT
                           !.it = r.it, !.cur = r.obj, !.changes = changes,
                           !.seen = StoredEntry(objs, r.obj, t.condition_type)],
              invoked |-> <<>>, batch |-> <<>>, fetch |-> TRUE, raised |-> FALSE]
        ELSE IF r.kind = "error"
        THEN [task |-> TaskAt(t, "done"),
              invoked |-> <<>>, batch |-> <<>>, fetch |-> FALSE, raised |-> TRUE]
        ELSE IF changes = <<>>
        THEN [task |-> TaskAt(t, "top"),
              invoked |-> <<>>, batch |-> <<>>, fetch |-> FALSE, raised |-> FALSE]
        ELSE PollerNotify(t, changes, 1)

\* lines 443-459, from the for statement's next(): up to the next suspension point
PollerAdvance(t, it, changes) ==
    LET r == PollerScan(monitoring_targets, it, t.condition_type)
    IN  IF r.kind = "item"
        THEN [task |-> [TaskAt(t, "fetch") EXCEPT
                           !.it = r.it, !.cur = r.obj, !.changes = changes,
                           !.seen = StoredEntry(objs, r.obj, t.condition_type)],
              invoked |-> <<>>, batch |-> <<>>, fetch |-> TRUE, raised |-> FALSE]
        ELSE IF r.kind = "error"
        THEN [task |-> TaskAt(t, "backoff"),
              invoked |-> <<>>, batch |-> <<>>, fetch |-> FALSE, raised |-> TRUE]
        ELSE IF changes = <<>>
        THEN [task |-> TaskAt(t, "top"),
              invoked |-> <<>>, batch |-> <<>>, fetch |-> FALSE, raised |-> FALSE]
        ELSE PollerNotify(t, changes, 1)

IsPoller(k) == tasks[k].name # "cleanup"

\* The task runs from its start or from the end of a sleep: the loop test of line
\* 439, then a tick up to its first suspension point.
PollerLoop(k) ==
    /\ k \in 1..Len(tasks) /\ IsPoller(k)
    /\ tasks[k].pc \in {"top", "backoff"}
    /\ ~tasks[k].must_cancel
    /\ IF ~is_monitoring
       THEN /\ tasks' = [tasks EXCEPT ![k] = TaskAt(@, "done")]
            /\ ev' = Ev("poller_loop")
            /\ UNCHANGED fetches
       ELSE LET adv == PollerAdvance(tasks[k], DictIter(monitoring_targets), <<>>)
            IN  /\ adv.fetch => fetches < MaxFetches
                /\ tasks' = [tasks EXCEPT ![k] = adv.task]
                /\ fetches' = IF adv.fetch THEN fetches + 1 ELSE fetches
                /\ ev' = IF adv.task = tasks[k] THEN ev
                         ELSE [Ev("poller_loop") EXCEPT
                                  !.raised = adv.raised, !.task = k,
                                  !.args = <<tasks[k].pc>>]
    /\ UNCHANGED <<is_monitoring, monitoring_tasks, monitoring_targets, objs,
                   update_callbacks, change_history, calls, now, last_ok, api_calls, cls,
                   trigger_vars, max_size>>

\* The provider call of a poller ends: the rest of _check_condition_for_target
\* (lines 502-526), then the tick goes on to its next suspension point.
PollerFetchReturn(k, fetched) ==
    /\ k \in 1..Len(tasks) /\ IsPoller(k)
    /\ tasks[k].pc = "fetch" /\ ~tasks[k].must_cancel
    /\ fetched \in FetchOutcomes(tasks[k].condition_type)
    /\ LET t == tasks[k]
           res == check_condition_for_target(objs[t.cur], t.condition_type, fetched, now)
           adv == PollerAdvance(t, t.it, t.changes \o res.changes)
       IN  /\ adv.fetch => fetches < MaxFetches
           /\ objs' = [objs EXCEPT ![t.cur].baseline_data = res.baseline_data]
           /\ last_ok' = IF fetched.ok
                          THEN [last_ok EXCEPT ![t.cur] =
                                    SetBaseline(@, t.condition_type, fetched.data)]
                          ELSE last_ok
           /\ change_history' = change_history \o res.changes
           /\ tasks' = [tasks EXCEPT ![k] = [adv.task EXCEPT !.checks = @ + 1]]
           /\ fetches' = IF adv.fetch THEN fetches + 1 ELSE fetches
           /\ ev' = [Ev("poller_fetch_return") EXCEPT
                        !.task = k,
                        !.check = <<CheckEv(t.cur, t.condition_type, fetched, res,
                                            t.changes, t.seen)>>,
                        !.invoked = adv.invoked, !.batch = adv.batch,
                        !.raised = adv.raised]
    /\ UNCHANGED <<is_monitoring, monitoring_tasks, monitoring_targets,
                   update_callbacks, calls, now, api_calls, cls,
                   trigger_vars, max_size>>

\* The coroutine callback a poller awaits (line 789) returns: the loop of
\* _notify_callbacks goes on, then the task sleeps.
PollerNotifyReturn(k) ==
    /\ k \in 1..Len(tasks) /\ IsPoller(k)
    /\ tasks[k].pc = "notify" /\ ~tasks[k].must_cancel
    /\ LET adv == PollerNotify(tasks[k], tasks[k].changes, tasks[k].cbi + 1)
       IN  /\ tasks' = [tasks EXCEPT ![k] = adv.task]
           /\ ev' = [Ev("poller_notify_return") EXCEPT
                        !.invoked = adv.invoked, !.batch = adv.batch]
    /\ UNCHANGED <<is_monitoring, monitoring_tasks, monitoring_targets, objs,
                   update_callbacks, change_history, calls, now, fetches, last_ok,
                   api_calls, cls,
                   trigger_vars, max_size>>

\* A task on which cancel() was called runs next with CancelledError thrown in at
\* its suspension point (or before its first statement).  No handler of the provider
\* path or of _notify_callbacks catches it (it is no Exception); line 455 ends the
\* loop, and from the sleep of line 459 it ends the task directly.
TaskCancelled(k) ==
    /\ k \in 1..Len(tasks)
    /\ Live(tasks[k]) /\ tasks[k].must_cancel
    /\ tasks' = [tasks EXCEPT ![k] = TaskAt(@, "done")]
    /\ ev' = Ev("task_cancelled")
    /\ UNCHANGED <<is_monitoring, monitoring_tasks, monitoring_targets, objs,
                   update_callbacks, change_history, calls, now, fetches, last_ok,
                   api_calls, cls,
                   trigger_vars, max_size>>

\* _cleanup_change_history, from its start or from the end of a sleep: the loop
\* test, the compaction of lines 802-804, then the sleep of line 808.
\* a variant for mutation: max // 2 entries are kept, rounded down
CompactHistoryFloor(history) ==
    LET keep == max_size \div 2
    IN  IF Len(history) > max_size /\ keep > 0
        THEN SubSeq(history, Len(history) - keep + 1, Len(history))
        ELSE history

\* -self._max_history_size//2 is (-max)//2, rounded towards minus infinity.
CompactHistory(history) ==
    LET first == (-max_size) \div 2
    IN  IF Len(history) > max_size /\ first < 0
        THEN SubSeq(history, Len(history) + first + 1, Len(history))
        ELSE history

CleanupLoop(k) ==
    /\ k \in 1..Len(tasks) /\ ~IsPoller(k)
    /\ tasks[k].pc = "top"
    /\ ~tasks[k].must_cancel
    /\ IF ~is_monitoring
       THEN /\ tasks' = [tasks EXCEPT ![k] = TaskAt(@, "done")]
            /\ UNCHANGED change_history
       ELSE /\ tasks' = [tasks EXCEPT ![k] = TaskAt(@, "top")]
            /\ change_history' = CompactHistory(change_history)
    /\ ev' = IF is_monitoring /\ CompactHistory(change_history) = change_history
             THEN ev ELSE Ev("cleanup_loop")
    /\ UNCHANGED <<is_monitoring, monitoring_tasks, monitoring_targets, objs,
                   update_callbacks, calls, now, fetches, last_ok, api_calls, cls,
                   trigger_vars, max_size>>

-----------------------------------------------------------------------------
(* The registry and the callback list *)

\* a public method is called
ApiCall == api_calls < MaxOps /\ api_calls' = api_calls + 1

\* the lowest free slot of calls, or 0
FreeSlot ==
    IF \E c \in 1..MaxCalls : calls[c] = Idle
    THEN CHOOSE c \in 1..MaxCalls : calls[c] = Idle /\ \A d \in 1..(c - 1) : calls[d] # Idle
    ELSE 0

\* a variant for mutation: the new target is stored beside the one the id has
add_monitoring_target_append(target_id, route, arg) ==
    /\ ApiCall
    /\ Len(objs) < MaxAdds
    /\ objs = <<>> => target_id = "a"
    /\ LET conditions == IF arg.given THEN arg.conditions ELSE AllTypes
       IN  /\ objs' = Append(objs, MonitoringTarget(target_id, route, conditions))
           /\ last_ok' = Append(last_ok, NoBaseline)
           /\ monitoring_targets' = Append(monitoring_targets, Len(objs) + 1)
    /\ ev' = [Ev("add_monitoring_target") EXCEPT
                 !.returned = "ok", !.args = <<target_id, route, arg>>]
    /\ UNCHANGED <<is_monitoring, monitoring_tasks, tasks, update_callbacks,
                   change_history, calls, now, fetches, cls,
                   trigger_vars, max_size>>

\* a variant for mutation: the target that replaces one of the same id takes over
\* its baselines and its last_checked
add_monitoring_target_keep_baseline(target_id, route, arg) ==
    /\ ApiCall
    /\ Len(objs) < MaxAdds
    /\ objs = <<>> => target_id = "a"
    /\ LET conditions == IF arg.given THEN arg.conditions ELSE AllTypes
           slot == DictSlot(monitoring_targets, target_id)
           new == Len(objs) + 1
           target == MonitoringTarget(target_id, route, conditions)
       IN  /\ objs' = Append(objs,
                         IF slot # 0
                         THEN [target EXCEPT
                                  !.baseline_data = objs[monitoring_targets[slot]].baseline_data,
                                  !.last_checked = objs[monitoring_targets[slot]].last_checked]
                         ELSE target)
           /\ last_ok' = Append(last_ok, NoBaseline)
           /\ monitoring_targets' = IF slot # 0
                                     THEN [monitoring_targets EXCEPT ![slot] = new]
                                     ELSE Append(monitoring_targets, new)
    /\ ev' = [Ev("add_monitoring_target") EXCEPT
                 !.returned = "ok", !.args = <<target_id, route, arg>>]
    /\ UNCHANGED <<is_monitoring, monitoring_tasks, tasks, update_callbacks,
                   change_history, calls, now, fetches, cls,
                   trigger_vars, max_size>>

\* add_monitoring_target(target_id, origin, destination, conditions).  The ids are
\* interchangeable: the first target ever added is given the id "a".
add_monitoring_target(target_id, route, arg) ==
    /\ ApiCall
    /\ Len(objs) < MaxAdds
    /\ objs = <<>> => target_id = "a"
    /\ LET conditions == IF arg.given THEN arg.conditions ELSE AllTypes
           slot == DictSlot(monitoring_targets, target_id)
           new == Len(objs) + 1
       IN  /\ objs' = Append(objs, MonitoringTarget(target_id, route, conditions))
           /\ last_ok' = Append(last_ok, NoBaseline)
           /\ monitoring_targets' = IF slot # 0
                                     THEN [monitoring_targets EXCEPT ![slot] = new]
                                     ELSE Append(monitoring_targets, new)
    /\ ev' = [Ev("add_monitoring_target") EXCEPT
                 !.returned = "ok", !.args = <<target_id, route, arg>>]
    /\ UNCHANGED <<is_monitoring, monitoring_tasks, tasks, update_callbacks,
                   change_history, calls, now, fetches, cls,
                   trigger_vars, max_size>>

\* a variant for mutation: `del` without the membership test raises KeyError for an
\* id that is not registered
remove_monitoring_target_strict(target_id) ==
    /\ ApiCall
    /\ LET slot == DictSlot(monitoring_targets, target_id)
       IN  /\ monitoring_targets' = IF slot # 0
                                     THEN [monitoring_targets EXCEPT ![slot] = 0]
                                     ELSE monitoring_targets
           /\ ev' = [Ev("remove_monitoring_target") EXCEPT
                        !.returned = IF slot # 0 THEN "ok" ELSE "error",
                        !.result = IF slot # 0 THEN <<TRUE>> ELSE <<>>,
                        !.args = <<target_id>>]
    /\ UNCHANGED <<is_monitoring, monitoring_tasks, tasks, objs, update_callbacks,
                   change_history, calls, now, fetches, last_ok, cls,
                   trigger_vars, max_size>>

\* remove_monitoring_target(target_id) -> bool
remove_monitoring_target(target_id) ==
    /\ ApiCall
    /\ LET slot == DictSlot(monitoring_targets, target_id)
       IN  /\ monitoring_targets' = IF slot # 0
                                     THEN [monitoring_targets EXCEPT ![slot] = 0]
                                     ELSE monitoring_targets
           /\ ev' = [Ev("remove_monitoring_target") EXCEPT
                        !.returned = "ok", !.result = <<slot # 0>>,
                        !.args = <<target_id>>]
    /\ UNCHANGED <<is_monitoring, monitoring_tasks, tasks, objs, update_callbacks,
                   change_history, calls, now, fetches, last_ok, cls,
                   trigger_vars, max_size>>

\* register_update_callback(callback)
register_update_callback(callback) ==
    /\ ApiCall
    /\ Len(update_callbacks) < MaxCallbacks
    /\ update_callbacks' = Append(update_callbacks, callback)
    /\ ev' = [Ev("register_update_callback") EXCEPT !.returned = "ok"]
    /\ UNCHANGED <<is_monitoring, monitoring_tasks, tasks, monitoring_targets, objs,
                   change_history, calls, now, fetches, last_ok, cls,
                   trigger_vars, max_size>>

\* list.remove(x): the list without the first occurrence of x
ListRemove(list, x) ==
    LET i == CHOOSE j \in 1..Len(list) : list[j] = x /\ \A h \in 1..(j - 1) : list[h] # x
    IN  SubSeq(list, 1, i - 1) \o SubSeq(list, i + 1, Len(list))

\* a variant for mutation: every registration of the callback is removed
unregister_update_callback_all(callback) ==
    /\ ApiCall
    /\ LET found == \E j \in 1..Len(update_callbacks) : update_callbacks[j] = callback
       IN  /\ update_callbacks' = SelectSeq(update_callbacks, LAMBDA x : x # callback)
           /\ ev' = [Ev("unregister_update_callback") EXCEPT
                        !.returned = "ok", !.result = <<found>>, !.args = <<callback>>]
    /\ UNCHANGED <<is_monitoring, monitoring_tasks, tasks, monitoring_targets, objs,
                   change_history, calls, now, fetches, last_ok, cls,
                   trigger_vars, max_size>>

\* unregister_update_callback(callback) -> bool
unregister_update_callback(callback) ==
    /\ ApiCall
    /\ LET found == \E j \in 1..Len(update_callbacks) : update_callbacks[j] = callback
       IN  /\ update_callbacks' = IF found THEN ListRemove(update_callbacks, callback)
                                   ELSE update_callbacks
           /\ ev' = [Ev("unregister_update_callback") EXCEPT
                        !.returned = "ok", !.result = <<found>>, !.args = <<callback>>]
    /\ UNCHANGED <<is_monitoring, monitoring_tasks, tasks, monitoring_targets, objs,
                   change_history, calls, now, fetches, last_ok, cls,
                   trigger_vars, max_size>>

-----------------------------------------------------------------------------
(* start_monitoring and stop_monitoring *)

\* a variant for mutation: the pollers without the cleanup task
SpawnedPollers ==
    [i \in 1..Len(ConditionType) |-> NewTask(TaskNames[i], ConditionType[i])]

\* lines 221-228: the five tasks, in creation order
SpawnedTasks ==
    [i \in 1..Len(TaskNames) |->
        NewTask(TaskNames[i], IF i <= Len(ConditionType) THEN ConditionType[i] ELSE "")]

\* a variant for mutation: a start that begins with fresh baselines
start_monitoring_fresh ==
    /\ ApiCall
    /\ IF is_monitoring
       THEN /\ ev' = [Ev("start_monitoring") EXCEPT !.returned = "ok", !.was_monitoring = TRUE]
            /\ UNCHANGED <<is_monitoring, monitoring_tasks, tasks, objs>>
       ELSE /\ Len(tasks) < MaxStarts * Len(TaskNames)
            /\ is_monitoring' = TRUE
            /\ tasks' = tasks \o SpawnedTasks
            /\ monitoring_tasks' = [i \in 1..Len(SpawnedTasks) |-> Len(tasks) + i]
            /\ objs' = [i \in 1..Len(objs) |->
                           [objs[i] EXCEPT !.baseline_data = NoBaseline]]
            /\ ev' = [Ev("start_monitoring") EXCEPT
                         !.returned = "ok", !.spawned = Len(SpawnedTasks)]
    /\ UNCHANGED <<monitoring_targets, update_callbacks, change_history, calls,
                   now, fetches, last_ok, cls,
                   trigger_vars, max_size>>

\* start_monitoring: it has no suspension point
start_monitoring ==
    /\ ApiCall
    /\ IF is_monitoring
       THEN /\ ev' = [Ev("start_monitoring") EXCEPT !.returned = "ok", !.was_monitoring = TRUE]
            /\ UNCHANGED <<is_monitoring, monitoring_tasks, tasks>>
       ELSE /\ Len(tasks) < MaxStarts * Len(TaskNames)
            /\ is_monitoring' = TRUE
            /\ tasks' = tasks \o SpawnedTasks
            /\ monitoring_tasks' = [i \in 1..Len(SpawnedTasks) |-> Len(tasks) + i]
            /\ ev' = [Ev("start_monitoring") EXCEPT
                         !.returned = "ok", !.spawned = Len(SpawnedTasks)]
    /\ UNCHANGED <<monitoring_targets, objs, update_callbacks, change_history, calls,
                   now, fetches, last_ok, cls,
                   trigger_vars, max_size>>

\* lines 239-245, from the for statement's next(): the items iterator raises when
\* the dict changed size, tasks that are done are passed over, the first live task
\* is the one to cancel and await.
RECURSIVE StopScan(_, _)
StopScan(pos, used) ==
    IF Len(monitoring_tasks) # used THEN [kind |-> "error", task |-> 0, pos |-> pos]
    ELSE IF pos > Len(monitoring_tasks) THEN [kind |-> "end", task |-> 0, pos |-> pos]
    ELSE IF ~Live(tasks[monitoring_tasks[pos]]) THEN StopScan(pos + 1, used)
    ELSE [kind |-> "await", task |-> monitoring_tasks[pos], pos |-> pos + 1]

\* the loop of stop_monitoring up to its next suspension point, or to its return
StopAdvance(c, pos, used, op) ==
    LET r == StopScan(pos, used)
    IN  IF r.kind = "await"
        THEN /\ tasks' = [tasks EXCEPT ![r.task].must_cancel = TRUE]
             /\ calls' = [calls EXCEPT ![c] =
                              [op |-> "stop", pos |-> r.pos, used |-> used, awaiting |-> r.task]]
             /\ ev' = [Ev(op) EXCEPT !.was_monitoring = TRUE]
             /\ UNCHANGED monitoring_tasks
        ELSE IF r.kind = "end"
        THEN /\ monitoring_tasks' = <<>>
             /\ calls' = [calls EXCEPT ![c] = Idle]
             /\ ev' = [Ev(op) EXCEPT !.returned = "ok", !.was_monitoring = TRUE]
             /\ UNCHANGED tasks
        ELSE /\ calls' = [calls EXCEPT ![c] = Idle]
             /\ ev' = [Ev(op) EXCEPT !.returned = "error", !.was_monitoring = TRUE]
             /\ UNCHANGED <<tasks, monitoring_tasks>>

\* a variant for mutation: a call on a monitor that is not monitoring raises
stop_monitoring_strict(c) ==
    /\ ApiCall
    /\ c # 0 /\ c = FreeSlot
    /\ IF ~is_monitoring
       THEN /\ ev' = [Ev("stop_monitoring") EXCEPT !.returned = "error"]
            /\ UNCHANGED <<is_monitoring, monitoring_tasks, tasks, calls>>
       ELSE /\ is_monitoring' = FALSE
            /\ StopAdvance(c, 1, Len(monitoring_tasks), "stop_monitoring")
    /\ UNCHANGED <<monitoring_targets, objs, update_callbacks, change_history,
                   now, fetches, last_ok, cls,
                   trigger_vars, max_size>>

\* stop_monitoring is called: lines 232-247 up to the first await
stop_monitoring(c) ==
    /\ ApiCall
    /\ c # 0 /\ c = FreeSlot
    /\ IF ~is_monitoring
       THEN /\ ev' = [Ev("stop_monitoring") EXCEPT !.returned = "ok"]
            /\ UNCHANGED <<is_monitoring, monitoring_tasks, tasks, calls>>
       ELSE /\ is_monitoring' = FALSE
            /\ StopAdvance(c, 1, Len(monitoring_tasks), "stop_monitoring")
    /\ UNCHANGED <<monitoring_targets, objs, update_callbacks, change_history,
                   now, fetches, last_ok, cls,
                   trigger_vars, max_size>>

\* the task stop_monitoring awaits (line 243) has ended: the loop goes on
StopResume(c) ==
    /\ c \in 1..MaxCalls /\ calls[c].op = "stop"
    /\ ~Live(tasks[calls[c].awaiting])
    /\ StopAdvance(c, calls[c].pos, calls[c].used, "stop_resume")
    /\ UNCHANGED <<is_monitoring, monitoring_targets, objs, update_callbacks,
                   change_history, now, fetches, last_ok, api_calls, cls,
                   trigger_vars, max_size>>

-----------------------------------------------------------------------------
(* check_conditions_now and _check_target_conditions *)

\* A suspended check_conditions_now: the target in work and the condition types of
\* its set not yet started (remaining), the changes of this target (tchanges) and of
\* the call (changes), for the all-targets form the dict iterator (it), and as
\* history the baseline entry that was stored when the provider call began (seen).
\* The iteration order of the set target.monitoring_conditions is not fixed by the
\* language: each next type is any of the remaining ones.
CheckFrame(all, it, obj, condition_type, changes) ==
    [op |-> "check", pc |-> "fetch", all |-> all, it |-> it, obj |-> obj,
     condition_type |-> condition_type,
     remaining |-> objs[obj].monitoring_conditions \ {condition_type},
     tchanges |-> <<>>, changes |-> changes, cbi |-> 0,
     seen |-> StoredEntry(objs, obj, condition_type)]

\* the value of the parameter nxt in a step that starts no provider call
NoType == ConditionType[1]

\* lines 352-355: the batch goes to the callbacks, then the call returns it
CheckNotify(f, changes, idx, objs1) ==
    LET n == NotifyRun(update_callbacks, idx)
    IN  [frame |-> IF n.at = 0 THEN Idle
                   ELSE [op |-> "check", pc |-> "notify", all |-> FALSE, it |-> NoIter,
                         obj |-> 0, condition_type |-> "", remaining |-> {},
                         tchanges |-> <<>>, changes |-> changes, cbi |-> n.at,
                         seen |-> <<>>],
         objs |-> objs1, invoked |-> n.invoked,
         batch |-> IF n.invoked = <<>> THEN <<>> ELSE changes,
         returned |-> IF n.at = 0 THEN "ok" ELSE "", result |-> changes,
         fetch |-> FALSE, valid |-> TRUE]

CheckFinish(f, changes, objs1, nxt) ==
    IF changes = <<>>
    THEN [frame |-> Idle, objs |-> objs1, invoked |-> <<>>, batch |-> <<>>,
          returned |-> "ok", result |-> <<>>, fetch |-> FALSE, valid |-> nxt = NoType]
    ELSE [CheckNotify(f, changes, 1, objs1) EXCEPT !.valid = (nxt = NoType)]

\* lines 348-349 with _check_target_conditions of a target without condition types
\* (no await: only last_checked is set): the next target that has a provider call
RECURSIVE CheckScan(_, _)
CheckScan(it, objs1) ==
    LET r == DictNext(monitoring_targets, it)
    IN  IF r.kind = "item" /\ objs1[r.obj].monitoring_conditions = {}
        THEN CheckScan(r.it, [objs1 EXCEPT ![r.obj].last_checked = now])
        ELSE [kind |-> r.kind, obj |-> r.obj, it |-> r.it, objs |-> objs1]

\* the for statement of line 348, from its next() to the next suspension point
CheckNextTarget(f, it, changes, objs1, nxt) ==
    LET r == CheckScan(it, objs1)
    IN  IF r.kind = "item"
        THEN [frame |-> CheckFrame(TRUE, r.it, r.obj, nxt, changes), objs |-> r.objs,
              invoked |-> <<>>, batch |-> <<>>, returned |-> "", result |-> <<>>,
              fetch |-> TRUE, valid |-> nxt \in objs[r.obj].monitoring_conditions]
        ELSE IF r.kind = "error"
        THEN [frame |-> Idle, objs |-> r.objs, invoked |-> <<>>, batch |-> <<>>,
              returned |-> "error", result |-> <<>>, fetch |-> FALSE,
              valid |-> nxt = NoType]
        ELSE CheckFinish(f, changes, r.objs, nxt)

\* _check_target_conditions after one of its checks returned (lines 473-478), and
\* what follows it in check_conditions_now
CheckAdvance(f, objs1, nxt) ==
    IF f.remaining # {}
    THEN [frame |-> [f EXCEPT !.condition_type = nxt, !.remaining = @ \ {nxt},
                              !.seen = StoredEntry(objs1, f.obj, nxt)],
          objs |-> objs1, invoked |-> <<>>, batch |-> <<>>, returned |-> "",
          result |-> <<>>, fetch |-> TRUE, valid |-> nxt \in f.remaining]
    ELSE LET objs2 == [objs1 EXCEPT ![f.obj].last_checked = now]
             changes == f.changes \o f.tchanges
         IN  IF f.all THEN CheckNextTarget(f, f.it, changes, objs2, nxt)
             ELSE CheckFinish(f, changes, objs2, nxt)

\* the truth value of the argument: `if target_id:` is false for None and for ""
Truthy(arg) == arg.given /\ arg.target_id # ""

\* check_conditions_now(target_id) is called: lines 338-355 up to the first await
CheckBegin(arg, nxt) ==
    IF Truthy(arg)
    THEN LET slot == DictSlot(monitoring_targets, arg.target_id)
             obj == monitoring_targets[slot]
         IN  IF slot = 0 THEN CheckFinish(Idle, <<>>, objs, nxt)
             ELSE IF objs[obj].monitoring_conditions = {}
             THEN CheckFinish(Idle, <<>>, [objs EXCEPT ![obj].last_checked = now], nxt)
             ELSE [frame |-> CheckFrame(FALSE, NoIter, obj, nxt, <<>>), objs |-> objs,
                   invoked |-> <<>>, batch |-> <<>>, returned |-> "", result |-> <<>>,
                   fetch |-> TRUE, valid |-> nxt \in objs[obj].monitoring_conditions]
    ELSE CheckNextTarget(Idle, DictIter(monitoring_targets), <<>>, objs, nxt)

\* the arguments given to check_conditions_now
CheckArgs ==
    {[given |-> FALSE, target_id |-> ""]} \cup
    {[given |-> TRUE, target_id |-> id] : id \in TargetIds}

check_conditions_now(c, arg, nxt) ==
    /\ ApiCall
    /\ c # 0 /\ c = FreeSlot
    /\ LET adv == CheckBegin(arg, nxt)
       IN  /\ adv.valid
           /\ adv.fetch => fetches < MaxFetches
           /\ calls' = [calls EXCEPT ![c] = adv.frame]
           /\ objs' = adv.objs
           /\ fetches' = IF adv.fetch THEN fetches + 1 ELSE fetches
           /\ ev' = [Ev("check_conditions_now") EXCEPT
                        !.call = c, !.args = <<arg>>,
                        !.invoked = adv.invoked, !.batch = adv.batch,
                        !.returned = adv.returned, !.result = adv.result]
    /\ UNCHANGED <<is_monitoring, monitoring_tasks, tasks, monitoring_targets,
                   update_callbacks, change_history, now, last_ok, cls,
                   trigger_vars, max_size>>

\* The provider call of a check_conditions_now ends: the rest of
\* _check_condition_for_target, then the call goes on to its next suspension point
\* or to its return.
CallFetchReturn(c, fetched, nxt) ==
    /\ c \in 1..MaxCalls /\ calls[c].op = "check" /\ calls[c].pc = "fetch"
    /\ fetched \in FetchOutcomes(calls[c].condition_type)
    /\ LET f == calls[c]
           res == check_condition_for_target(objs[f.obj], f.condition_type, fetched, now)
           objs1 == [objs EXCEPT ![f.obj].baseline_data = res.baseline_data]
           adv == CheckAdvance([f EXCEPT !.tchanges = @ \o res.changes], objs1, nxt)
       IN  /\ adv.valid
           /\ adv.fetch => fetches < MaxFetches
           /\ objs' = adv.objs
           /\ last_ok' = IF fetched.ok
                          THEN [last_ok EXCEPT ![f.obj] =
                                    SetBaseline(@, f.condition_type, fetched.data)]
                          ELSE last_ok
           /\ change_history' = change_history \o res.changes
           /\ calls' = [calls EXCEPT ![c] = adv.frame]
           /\ fetches' = IF adv.fetch THEN fetches + 1 ELSE fetches
           /\ ev' = [Ev("call_fetch_return") EXCEPT
                        !.call = c,
                        !.check = <<CheckEv(f.obj, f.condition_type, fetched, res,
                                            f.changes \o f.tchanges, f.seen)>>,
                        !.invoked = adv.invoked, !.batch = adv.batch,
                        !.returned = adv.returned, !.result = adv.result]
    /\ UNCHANGED <<is_monitoring, monitoring_tasks, tasks, monitoring_targets,
                   update_callbacks, now, api_calls, cls,
                   trigger_vars, max_size>>

\* The coroutine callback a check_conditions_now awaits returns: the loop of
\* _notify_callbacks goes on, then the call returns its changes.
CallNotifyReturn(c) ==
    /\ c \in 1..MaxCalls /\ calls[c].op = "check" /\ calls[c].pc = "notify"
    /\ LET adv == CheckNotify(calls[c], calls[c].changes, calls[c].cbi + 1, objs)
       IN  /\ calls' = [calls EXCEPT ![c] = adv.frame]
           /\ ev' = [Ev("call_notify_return") EXCEPT
                        !.invoked = adv.invoked, !.batch = adv.batch,
                        !.returned = adv.returned, !.result = adv.result]
    /\ UNCHANGED <<is_monitoring, monitoring_tasks, tasks, monitoring_targets, objs,
                   update_callbacks, change_history, now, fetches, last_ok, api_calls, cls,
                   trigger_vars, max_size>>

-----------------------------------------------------------------------------
(* get_monitoring_status *)

\* list[-n:]: the last min(n, len(list)) elements, in order
LastOf(list, n) ==
    SubSeq(list, (IF Len(list) > n THEN Len(list) - n ELSE 0) + 1, Len(list))

\* the values of the dict in iteration order
DictValues(entries) == SelectSeq(entries, LAMBDA e : e # 0)

\* one element of 'targets' (lines 371-378); origin and destination are renderings
\* of the route
TargetStatus(obj) ==
    [target_id |-> objs[obj].target_id, route |-> objs[obj].route,
     monitoring_conditions |-> objs[obj].monitoring_conditions,
     last_checked |-> objs[obj].last_checked,
     has_baseline |-> objs[obj].baseline_data # NoBaseline]

\* one element of 'recent_changes' (lines 383-387); the description is a rendering
\* of the other fields of the change
ChangeStatus(change) ==
    [condition_type |-> change.condition_type, metric |-> change.metric,
     significance |-> change.significance, timestamp |-> change.timestamp]

\* the dictionary get_monitoring_status returns (lines 364-391)
MonitoringStatus ==
    [is_monitoring |-> is_monitoring,
     total_targets |-> DictUsed(monitoring_targets),
     active_tasks |-> Cardinality({i \in 1..Len(monitoring_tasks) :
                                      Live(tasks[monitoring_tasks[i]])}),
     registered_callbacks |-> Len(update_callbacks),
     change_history_size |-> Len(change_history),
     targets |-> [i \in 1..DictUsed(monitoring_targets) |->
                     TargetStatus(DictValues(monitoring_targets)[i])],
     recent_changes |-> [i \in 1..Len(LastOf(change_history, recent_changes_size)) |->
                            ChangeStatus(LastOf(change_history, recent_changes_size)[i])]]

\* get_monitoring_status(): it has no suspension point and assigns nothing
get_monitoring_status ==
    /\ ApiCall
    /\ ev' = [Ev("get_monitoring_status") EXCEPT
                 !.returned = "ok", !.result = <<MonitoringStatus>>]
    /\ UNCHANGED <<is_monitoring, monitoring_tasks, tasks, monitoring_targets, objs,
                   update_callbacks, change_history, calls, now, fetches, last_ok, cls,
                   trigger_vars, max_size>>

-----------------------------------------------------------------------------
(* The monitor: ConditionMonitoringService.__init__ and every step *)

NoCls == [phase |-> "none"]

\* update_triggers while no RecommendationUpdateTrigger is constructed
NoTrigger == <<>>

Init ==
    /\ is_monitoring = FALSE
    /\ monitoring_tasks = <<>>
    /\ tasks = <<>>
    /\ monitoring_targets = <<>>
    /\ objs = <<>>
    /\ update_callbacks = <<>>
    /\ change_history = <<>>
    /\ calls = [c \in 1..MaxCalls |-> Idle]
    /\ now = 0
    /\ fetches = 0
    /\ api_calls = 0
    /\ last_ok = <<>>
    /\ ev = EvNone
    /\ cls = NoCls
    /\ update_triggers = NoTrigger
    /\ route_update_callbacks = <<>>
    /\ recommendation_update_callbacks = <<>>
    /\ max_size = max_history_size

Next ==
    \/ \E id \in TargetIds, route \in Routes, arg \in ConditionArgs :
           add_monitoring_target(id, route, arg)
    \/ \E id \in TargetIds : remove_monitoring_target(id)
    \/ \E cb \in Callbacks : register_update_callback(cb)
    \/ \E cb \in Callbacks : unregister_update_callback(cb)
    \/ start_monitoring
    \/ stop_monitoring(FreeSlot)
    \/ \E c \in 1..MaxCalls : StopResume(c)
    \/ \E arg \in CheckArgs, nxt \in AllTypes : check_conditions_now(FreeSlot, arg, nxt)
    \/ \E c \in 1..MaxCalls, nxt \in AllTypes, fetched \in AllFetchOutcomes :
           CallFetchReturn(c, fetched, nxt)
    \/ \E c \in 1..MaxCalls : CallNotifyReturn(c)
    \/ get_monitoring_status
    \/ \E k \in 1..Len(tasks) : PollerLoop(k)
    \/ \E k \in 1..Len(tasks), fetched \in AllFetchOutcomes : PollerFetchReturn(k, fetched)
    \/ \E k \in 1..Len(tasks) : PollerNotifyReturn(k)
    \/ \E k \in 1..Len(tasks) : TaskCancelled(k)
    \/ \E k \in 1..Len(tasks) : CleanupLoop(k)

Spec == Init /\ [][Next]_vars

\* The monitor after add_monitoring_target("a", ...) and one
\* check_conditions_now("a") that returned, in which the traffic provider answered
\* and the other providers, if called, failed: the target has a traffic baseline.
\* The counters api_calls and fetches count from this state on.
InitOverlap ==
    /\ is_monitoring = FALSE
    /\ monitoring_tasks = <<>>
    /\ tasks = <<>>
    /\ monitoring_targets = <<1>>
    /\ \E d \in ProviderData("traffic"), arg \in ConditionArgs :
           /\ objs = <<[MonitoringTarget("a", "r1", IF arg.given THEN arg.conditions
                                                    ELSE AllTypes) EXCEPT
                           !.baseline_data = SetBaseline(NoBaseline, "traffic", d),
                           !.last_checked = 0]>>
           /\ last_ok = <<SetBaseline(NoBaseline, "traffic", d)>>
    /\ update_callbacks = <<>>
    /\ change_history = <<>>
    /\ calls = [c \in 1..MaxCalls |-> Idle]
    /\ now = 0
    /\ fetches = 0
    /\ api_calls = 0
    /\ ev = EvNone
    /\ cls = NoCls
    /\ update_triggers = NoTrigger
    /\ route_update_callbacks = <<>>
    /\ recommendation_update_callbacks = <<>>
    /\ max_size = max_history_size

\* the calls and steps of polling and checking; the registry is left as it is
NextOverlap ==
    \/ \E cb \in Callbacks : register_update_callback(cb)
    \/ start_monitoring
    \/ \E arg \in CheckArgs, nxt \in AllTypes : check_conditions_now(FreeSlot, arg, nxt)
    \/ \E c \in 1..MaxCalls, nxt \in AllTypes, fetched \in AllFetchOutcomes :
           CallFetchReturn(c, fetched, nxt)
    \/ \E c \in 1..MaxCalls : CallNotifyReturn(c)
    \/ \E k \in 1..Len(tasks) : PollerLoop(k)
    \/ \E k \in 1..Len(tasks), fetched \in AllFetchOutcomes : PollerFetchReturn(k, fetched)
    \/ \E k \in 1..Len(tasks) : PollerNotifyReturn(k)
    \/ \E k \in 1..Len(tasks) : CleanupLoop(k)

SpecOverlap == InitOverlap /\ [][NextOverlap]_vars

-----------------------------------------------------------------------------
(* The classifier on its own: one call of _calculate_change_significance *)

\* the ladders given to the classifier: every entry of the default table, and every
\* ladder (ordered or not) with levels 0..MaxLevel in each comparison mode,
\* "relative" being a mode the code does not know
ClassifyThresholds ==
    {initialize_default_thresholds[i] : i \in 1..Len(initialize_default_thresholds)}
    \cup {ConditionThreshold("traffic", "delay_minutes", a, b, c, d, cmp) :
            a \in 0..MaxLevel, b \in 0..MaxLevel, c \in 0..MaxLevel, d \in 0..MaxLevel,
            cmp \in {"absolute", "percentage", "relative"}}
    \cup {ConditionThreshold("transit", "service_status", a, b, c, d, "categorical") :
            a \in 0..MaxLevel, b \in 0..MaxLevel, c \in 0..MaxLevel, d \in 0..MaxLevel}

\* the old and new values given with a ladder: category names (and one name no
\* table has) for a categorical entry, numbers otherwise
ClassifyValues(threshold) ==
    IF threshold.comparison_type = "categorical"
    THEN DOMAIN get_category_values(threshold.condition_type, threshold.metric)
         \cup {"unknown"}
    ELSE ((-MaxVal)..MaxVal) \cup {5, 10, 42} \cup {100 + k : k \in 0..MaxLevel}

\* the arguments of the call
ClassifyInput(threshold, old_value, new_value) ==
    [phase |-> "input", threshold |-> threshold,
     old_value |-> old_value, new_value |-> new_value]

InitClassify ==
    /\ is_monitoring = FALSE
    /\ monitoring_tasks = <<>>
    /\ tasks = <<>>
    /\ monitoring_targets = <<>>
    /\ objs = <<>>
    /\ update_callbacks = <<>>
    /\ change_history = <<>>
    /\ calls = [c \in 1..MaxCalls |-> Idle]
    /\ now = 0
    /\ fetches = 0
    /\ api_calls = 0
    /\ last_ok = <<>>
    /\ ev = EvNone
    /\ update_triggers = NoTrigger
    /\ route_update_callbacks = <<>>
    /\ recommendation_update_callbacks = <<>>
    /\ max_size = max_history_size
    /\ \E t \in ClassifyThresholds :
           \E o \in ClassifyValues(t), n \in ClassifyValues(t) :
               cls = ClassifyInput(t, o, n)

\* the call returns (change_magnitude, significance)
Classify ==
    /\ cls.phase = "input"
    /\ LET result == calculate_change_significance(cls.threshold, cls.old_value,
                                                   cls.new_value)
       IN  cls' = [phase |-> "done", threshold |-> cls.threshold,
                   old_value |-> cls.old_value, new_value |-> cls.new_value,
                   change_magnitude |-> result.change_magnitude,
                   significance |-> result.significance]
    /\ UNCHANGED <<monitor_vars, trigger_vars, max_size>>

NextClassify == Classify

SpecClassify == InitClassify /\ [][NextClassify]_vars

-----------------------------------------------------------------------------
(* The update trigger: RecommendationUpdateTrigger, and the dispatch of a batch by
   _notify_callbacks to callbacks that return or raise *)

\* the callables given to the monitor and the trigger: plain functions and coroutine
\* functions (which suspend once), each returning or raising an Exception
TriggerCallbacks == Callbacks \cup {"cb_sync_raise", "cb_async_raise"}

\* the bound method self._handle_condition_changes
handle_condition_changes == "handle_condition_changes"

\* asyncio.iscoroutinefunction(callback)
iscoroutinefunction(callback) ==
    callback \in {"cb_async", "cb_async_raise", handle_condition_changes}

\* the call of the callback ends with an Exception
Raises(callback) == callback \in {"cb_sync_raise", "cb_async_raise"}

\* lines 833-838: the default policy
default_update_triggers ==
    [critical |-> TRUE, major |-> TRUE, moderate |-> TRUE, minor |-> FALSE]

\* a ConditionChange as _detect_changes builds it from entry i of the threshold table
TriggerChange(i, old_value, new_value) ==
    LET threshold == initialize_default_thresholds[i]
    IN  ConditionChange(threshold.condition_type, threshold.metric, old_value, new_value,
                        calculate_change_significance(threshold, old_value, new_value),
                        0, "r1")

\* the batches handed to _notify_callbacks: (weather MINOR, traffic MAJOR),
\* (weather MODERATE, parking MAJOR), (traffic MINOR)
Batches ==
    { <<TriggerChange(6, 10, 9), TriggerChange(1, 10, 30)>>,
      <<TriggerChange(6, 10, 8), TriggerChange(10, 5, 10)>>,
      <<TriggerChange(1, 10, 12)>> }

\* self.update_triggers.get(significance, False)
TriggerGet(triggers, significance) ==
    IF significance \in DOMAIN triggers THEN triggers[significance] ELSE FALSE

\* a variant for mutation: the policy is not applied
triggering_changes_unfiltered(changes) == changes

\* lines 899-902
triggering_changes(changes) ==
    SelectSeq(changes, LAMBDA change : TriggerGet(update_triggers, change.significance))

\* a variant for mutation: every triggering change is route-affecting
route_affecting_changes_all(triggering) == triggering

\* lines 911-917
route_affecting_changes(triggering) ==
    SelectSeq(triggering, LAMBDA change : change.condition_type \in {"traffic", "transit"})

\* A _notify_callbacks(changes) in flight, called by a poller (line 450) or by
\* check_conditions_now (line 353).  idx is the position in
\* self._update_callbacks of the callback in work; while that callback is
\* _handle_condition_changes, stage tells which of the trigger's lists is being
\* walked and j the position in it.  pc is
\*   "await"     suspended in the coroutine callback cb
\*   "returned"  _notify_callbacks returned to its caller
\*   "raised"    an exception left _notify_callbacks
\* History fields: policy is the policy the handler filtered with; raw0, route0 and
\* rec0 are the callback lists as they were when _notify_callbacks (raw0) and the
\* handler (route0, rec0) were entered; log holds the calls of callbacks begun and
\* ended, in order, each with the policy in force at
\* that moment.
DispatchFrame(changes) ==
    [op |-> "dispatch", pc |-> "run", changes |-> changes,
     idx |-> 0, stage |-> "raw", j |-> 0, cb |-> "",
     route_changes |-> <<>>, rec_changes |-> <<>>, policy |-> <<>>,
     raw0 |-> update_callbacks, route0 |-> <<>>, rec0 |-> <<>>, log |-> <<>>]

CallEvent(kind, set, callback, batch, raised) ==
    [kind |-> kind, set |-> set, cb |-> callback, batch |-> batch, raised |-> raised,
     triggers |-> update_triggers]

Started(f, set, callback, batch) ==
    [f EXCEPT !.log = Append(@, CallEvent("start", set, callback, batch, FALSE))]

Ended(f, set, callback, batch, raised) ==
    [f EXCEPT !.log = Append(@, CallEvent("end", set, callback, batch, raised))]

\* _notify_callbacks returned to its caller, or raised into it
Returned(f) == [f EXCEPT !.pc = "returned"]

Propagated(f) == [f EXCEPT !.pc = "raised"]

\* what the poller does after `await self._notify_callbacks(changes)` (lines
\* 450-459): the interval sleep, or the back-off of the except clause
PollerAfterNotify(pc) == IF pc = "raised" THEN "backoff" ELSE "sleep"

\* what check_conditions_now does after it (lines 353-355): it returns the changes,
\* or the exception leaves it
CheckAfterNotify(pc) == IF pc = "raised" THEN "raised" ELSE "returned"

\* a variant for mutation: only _notify_callbacks guards its calls
CaughtInNotifyOnly(set) == set = "raw"

\* the `except Exception` clauses around the call of a callback: lines 792-793 (raw),
\* 945-946 (route), 963-964 (rec)
Caught(set) == set \in {"raw", "route", "rec"}

\* the changes parameter of _trigger_recommendation_updates, for mutation: the
\* policy is applied again when the recommendation callbacks are reached
RecommendationBatchLate(f) == triggering_changes(f.changes)

\* the changes parameter of _trigger_recommendation_updates (lines 920, 927-928)
RecommendationBatch(f) == f.rec_changes

RECURSIVE NotifyFrom(_, _), RouteFrom(_, _), RecFrom(_, _), AfterCallback(_, _)

\* a variant for mutation: a coroutine callback is started and not awaited
InvokeDetached(f, set, callback, batch) ==
    LET g == [Started(f, set, callback, batch) EXCEPT !.stage = set, !.cb = callback]
    IN  IF iscoroutinefunction(callback)
        THEN AfterCallback(g, FALSE)
        ELSE AfterCallback(Ended(g, set, callback, batch, Raises(callback)),
                           Raises(callback))

\* lines 788-791, 941-944, 959-962: the callback is called; a coroutine function is
\* awaited (the frame is suspended in it), a plain function has ended when the
\* call returns
Invoke(f, set, callback, batch) ==
    LET g == [Started(f, set, callback, batch) EXCEPT !.stage = set, !.cb = callback]
    IN  IF iscoroutinefunction(callback)
        THEN [g EXCEPT !.pc = "await"]
        ELSE AfterCallback(Ended(g, set, callback, batch, Raises(callback)),
                           Raises(callback))

\* _handle_condition_changes has returned, or raised, into _notify_callbacks
HandlerEnded(f, raised) ==
    LET g == Ended(f, "raw", handle_condition_changes, f.changes, raised)
    IN  IF raised /\ ~Caught("raw") THEN Propagated(g) ELSE NotifyFrom(g, g.idx + 1)

\* a variant for mutation: the recommendation callbacks come first
handle_condition_changes_rec_first(f) ==
    LET triggering == triggering_changes(f.changes)
        g == [f EXCEPT !.policy = update_triggers,
                       !.route0 = route_update_callbacks,
                       !.rec0 = recommendation_update_callbacks,
                       !.route_changes = route_affecting_changes(triggering),
                       !.rec_changes = triggering]
    IN  IF triggering = <<>> THEN HandlerEnded(g, FALSE) ELSE RecFrom(g, 1)

\* _handle_condition_changes(changes), lines 895-928, up to its first suspension
handle_condition_changes_run(f) ==
    LET triggering == triggering_changes(f.changes)
        g == [f EXCEPT !.policy = update_triggers,
                       !.route0 = route_update_callbacks,
                       !.rec0 = recommendation_update_callbacks,
                       !.route_changes = route_affecting_changes(triggering),
                       !.rec_changes = triggering]
    IN  IF triggering = <<>> THEN HandlerEnded(g, FALSE)
        ELSE IF g.route_changes # <<>> THEN RouteFrom(g, 1)
        ELSE RecFrom(g, 1)

\* the loop of _notify_callbacks (lines 785-793) from list position i on: the list
\* iterator reads the list as it is when next() is called
NotifyFrom(f, i) ==
    IF i > Len(update_callbacks) THEN Returned(f)
    ELSE LET callback == update_callbacks[i]
             g == [f EXCEPT !.idx = i]
         IN  IF callback = handle_condition_changes
             THEN handle_condition_changes_run(
                      [Started(g, "raw", callback, f.changes) EXCEPT !.stage = "raw"])
             ELSE Invoke(g, "raw", callback, f.changes)

\* the loop of _trigger_route_updates (lines 939-946) from list position j on, then
\* lines 927-928
RouteFrom(f, j) ==
    IF j > Len(route_update_callbacks) THEN RecFrom(f, 1)
    ELSE Invoke([f EXCEPT !.j = j], "route", route_update_callbacks[j], f.route_changes)

\* the loop of _trigger_recommendation_updates (lines 957-964) from position j on
RecFrom(f, j) ==
    IF j > Len(recommendation_update_callbacks) THEN HandlerEnded(f, FALSE)
    ELSE Invoke([f EXCEPT !.j = j], "rec", recommendation_update_callbacks[j],
                RecommendationBatch(f))

\* the call of a callback of `f.stage` has ended: the except clause, then the loop
\* goes on
AfterCallback(f, raised) ==
    IF f.stage = "raw"
    THEN IF raised /\ ~Caught("raw") THEN Propagated(f) ELSE NotifyFrom(f, f.idx + 1)
    ELSE IF raised /\ ~Caught(f.stage) THEN HandlerEnded(f, TRUE)
    ELSE IF f.stage = "route" THEN RouteFrom(f, f.j + 1)
    ELSE RecFrom(f, f.j + 1)

\* a variant for mutation: only the changes the policy enables are recorded
notify_callbacks_policy_history(c, changes) ==
    /\ c # 0 /\ c = FreeSlot
    /\ changes # <<>>
    /\ change_history' = change_history \o triggering_changes(changes)
    /\ calls' = [calls EXCEPT ![c] = NotifyFrom(DispatchFrame(changes), 1)]
    /\ ev' = Ev("trigger_step")
    /\ UNCHANGED <<is_monitoring, monitoring_tasks, tasks, monitoring_targets, objs,
                   update_callbacks, now, fetches, api_calls, last_ok,
                   cls, trigger_vars, max_size>>

\* The round of a poller or of check_conditions_now ends with the changes it
\* detected, each appended to the history by _detect_changes when it was created
\* (line 624), and calls _notify_callbacks(changes) (lines 449-450, 352-353): the
\* dispatch runs up to its first suspension, or to its end
notify_callbacks(c, changes) ==
    /\ c # 0 /\ c = FreeSlot
    /\ changes # <<>>
    /\ change_history' = change_history \o changes
    /\ calls' = [calls EXCEPT ![c] = NotifyFrom(DispatchFrame(changes), 1)]
    /\ ev' = Ev("trigger_step")
    /\ UNCHANGED <<is_monitoring, monitoring_tasks, tasks, monitoring_targets, objs,
                   update_callbacks, now, fetches, api_calls, last_ok,
                   cls, trigger_vars, max_size>>

\* the coroutine callback a dispatch is suspended in ends: the dispatch goes on
CallbackReturn(c) ==
    /\ c \in 1..MaxCalls /\ calls[c].op = "dispatch" /\ calls[c].pc = "await"
    /\ LET f == calls[c]
           batch == f.log[Len(f.log)].batch
           raised == Raises(f.cb)
       IN  calls' = [calls EXCEPT ![c] =
                        AfterCallback(Ended(f, f.stage, f.cb, batch, raised), raised)]
    /\ ev' = Ev("trigger_step")
    /\ UNCHANGED <<is_monitoring, monitoring_tasks, tasks, monitoring_targets, objs,
                   update_callbacks, change_history, now, fetches, api_calls, last_ok,
                   cls, trigger_vars, max_size>>

\* a public method of the trigger is called
TriggerCall == api_calls < MaxTriggerOps /\ api_calls' = api_calls + 1

\* register_route_update_callback(callback)
register_route_update_callback(callback) ==
    /\ TriggerCall
    /\ Len(route_update_callbacks) < MaxTriggerCallbacks
    /\ route_update_callbacks' = Append(route_update_callbacks, callback)
    /\ ev' = Ev("trigger_step")
    /\ UNCHANGED <<is_monitoring, monitoring_tasks, tasks, monitoring_targets, objs,
                   update_callbacks, change_history, calls, now, fetches, last_ok, cls,
                   update_triggers, recommendation_update_callbacks, max_size>>

\* register_recommendation_update_callback(callback)
register_recommendation_update_callback(callback) ==
    /\ TriggerCall
    /\ Len(recommendation_update_callbacks) < MaxTriggerCallbacks
    /\ recommendation_update_callbacks' = Append(recommendation_update_callbacks, callback)
    /\ ev' = Ev("trigger_step")
    /\ UNCHANGED <<is_monitoring, monitoring_tasks, tasks, monitoring_targets, objs,
                   update_callbacks, change_history, calls, now, fetches, last_ok, cls,
                   update_triggers, route_update_callbacks, max_size>>

\* set_update_trigger_threshold(significance, should_trigger)
set_update_trigger_threshold(significance, should_trigger) ==
    /\ TriggerCall
    /\ update_triggers' =
           [s \in DOMAIN update_triggers \cup {significance} |->
               IF s = significance THEN should_trigger ELSE update_triggers[s]]
    /\ ev' = [Ev("set_update_trigger_threshold") EXCEPT
                 !.returned = "ok", !.result = <<significance, should_trigger>>]
    /\ UNCHANGED <<is_monitoring, monitoring_tasks, tasks, monitoring_targets, objs,
                   update_callbacks, change_history, calls, now, fetches, last_ok, cls,
                   route_update_callbacks, recommendation_update_callbacks, max_size>>

\* unregister_update_callback(callback) of the monitor, within the calls counted
\* by MaxTriggerOps
UnregisterRaw(callback) ==
    /\ api_calls < MaxTriggerOps
    /\ unregister_update_callback(callback)

\* the callbacks registered on the monitor before and after the trigger is
\* constructed
RawCallbacks == {"cb_sync", "cb_async_raise"}

\* the arguments given to set_update_trigger_threshold
TriggerSettings == {<<"minor", TRUE>>, <<"major", FALSE>>}

\* the callbacks given to the trigger's two register methods
RouteCallbacks == {"cb_sync_raise", "cb_async"}

RecommendationCallbacks == {"cb_sync", "cb_async_raise"}

\* the state after ConditionMonitoringService(...), some register_update_callback
\* calls, RecommendationUpdateTrigger(monitor) (whose line 845 registers the
\* handler) and some more register_update_callback calls
InitTrigger ==
    /\ is_monitoring = FALSE
    /\ monitoring_tasks = <<>>
    /\ tasks = <<>>
    /\ monitoring_targets = <<>>
    /\ objs = <<>>
    /\ \E before \in {<<>>, <<"cb_async_raise">>}, after \in {<<>>, <<"cb_sync">>} :
           update_callbacks = before \o <<handle_condition_changes>> \o after
    /\ change_history = <<>>
    /\ calls = [c \in 1..MaxCalls |-> Idle]
    /\ now = 0
    /\ fetches = 0
    /\ api_calls = 0
    /\ last_ok = <<>>
    /\ ev = EvNone
    /\ cls = NoCls
    /\ update_triggers = default_update_triggers
    /\ route_update_callbacks = <<>>
    /\ recommendation_update_callbacks = <<>>
    /\ max_size = max_history_size

NextTrigger ==
    \/ \E changes \in Batches : notify_callbacks(FreeSlot, changes)
    \/ \E c \in 1..MaxCalls : CallbackReturn(c)
    \/ \E cb \in RouteCallbacks : register_route_update_callback(cb)
    \/ \E cb \in RecommendationCallbacks : register_recommendation_update_callback(cb)
    \/ \E a \in TriggerSettings : set_update_trigger_threshold(a[1], a[2])
    \/ \E cb \in RawCallbacks : UnregisterRaw(cb)

SpecTrigger == InitTrigger /\ [][NextTrigger]_vars

-----------------------------------------------------------------------------
(* The change history on its own (SpecHistory): appends as _detect_changes makes
   them, the clock, compaction runs and get_change_history. Time is counted in
   hours. *)

\* None, for an optional argument that is not given
None == ""

\* the changes appended: traffic MAJOR, traffic MINOR, parking MAJOR
HistoryChanges ==
    {TriggerChange(1, 10, 30), TriggerChange(1, 10, 12), TriggerChange(10, 5, 10)}

QueryTypes == {None, "traffic", "parking"}

QuerySignificances == {None, "major", "minor"}

HistoryFrame ==
    UNCHANGED <<is_monitoring, monitoring_tasks, tasks, monitoring_targets, objs,
                update_callbacks, calls, fetches, api_calls, last_ok, cls,
                trigger_vars, max_size>>

\* a variant for mutation: the new entry is put in front of the list
AppendChangeFront(change) ==
    /\ Len(change_history) < MaxHistoryLen
    /\ change_history' = <<[change EXCEPT !.timestamp = now]>> \o change_history
    /\ ev' = Ev("append")
    /\ UNCHANGED now
    /\ HistoryFrame

\* lines 608-625: a detected change is stamped with datetime.now() and appended
AppendChange(change) ==
    /\ Len(change_history) < MaxHistoryLen
    /\ change_history' = Append(change_history, [change EXCEPT !.timestamp = now])
    /\ ev' = Ev("append")
    /\ UNCHANGED now
    /\ HistoryFrame

\* an hour passes
ClockTick ==
    /\ now < MaxNow
    /\ now' = now + 1
    /\ ev' = Ev("clock")
    /\ UNCHANGED change_history
    /\ HistoryFrame

\* one run of lines 802-804 of _cleanup_change_history
cleanup_change_history ==
    /\ change_history' = CompactHistory(change_history)
    /\ ev' = Ev("cleanup_change_history")
    /\ UNCHANGED now
    /\ HistoryFrame

\* a variant for mutation: an entry stamped exactly at the cutoff is dropped too
IsBeforeOrAtCutoff(timestamp, cutoff_time) == timestamp <= cutoff_time

\* line 415: change.timestamp < cutoff_time
IsBeforeCutoff(timestamp, cutoff_time) == timestamp < cutoff_time

\* lines 410-428: the loop of get_change_history
FilteredChanges(history, condition_type, significance, hours_back) ==
    LET cutoff_time == now - hours_back
        Kept(change) ==
            /\ ~IsBeforeCutoff(change.timestamp, cutoff_time)
            /\ ~(condition_type # None /\ change.condition_type # condition_type)
            /\ ~(significance # None /\ change.significance # significance)
    IN  SelectSeq(history, Kept)

\* get_change_history(condition_type, significance, hours_back)
get_change_history(condition_type, significance, hours_back) ==
    /\ ev' = [Ev("get_change_history") EXCEPT
                 !.check = <<condition_type, significance, hours_back>>,
                 !.result = FilteredChanges(change_history, condition_type,
                                            significance, hours_back),
                 !.returned = "ok"]
    /\ UNCHANGED <<change_history, now>>
    /\ HistoryFrame

InitHistory ==
    /\ is_monitoring = FALSE
    /\ monitoring_tasks = <<>>
    /\ tasks = <<>>
    /\ monitoring_targets = <<>>
    /\ objs = <<>>
    /\ update_callbacks = <<>>
    /\ change_history = <<>>
    /\ calls = [c \in 1..MaxCalls |-> Idle]
    /\ now = 0
    /\ fetches = 0
    /\ api_calls = 0
    /\ last_ok = <<>>
    /\ ev = EvNone
    /\ cls = NoCls
    /\ update_triggers = NoTrigger
    /\ route_update_callbacks = <<>>
    /\ recommendation_update_callbacks = <<>>
    /\ max_size \in 1..MaxMaxSize

NextHistory ==
    \/ \E change \in HistoryChanges : AppendChange(change)
    \/ ClockTick
    \/ cleanup_change_history
    \/ \E condition_type \in QueryTypes, significance \in QuerySignificances,
          hours_back \in 0..MaxHoursBack :
           get_change_history(condition_type, significance, hours_back)

SpecHistory == InitHistory /\ [][NextHistory]_vars

-----------------------------------------------------------------------------
(* Properties of the monitor (Spec) *)

\* the last step completed a _check_condition_for_target
Checked == ev.check # <<>>

\* the metrics of the table for a condition type that two snapshots both carry
ComparedEntries(condition_type, old_data, new_data) ==
    {i \in 1..Len(initialize_default_thresholds) :
        /\ initialize_default_thresholds[i].condition_type = condition_type
        /\ initialize_default_thresholds[i].metric \in DOMAIN old_data
        /\ initialize_default_thresholds[i].metric \in DOMAIN new_data}

\* how many of the changes are about a metric
ChangesFor(changes, metric) ==
    Cardinality({j \in 1..Len(changes) : changes[j].metric = metric})

\* C1: the baseline of a (target, type) is absent until a fetch of that type for
\* that target has succeeded; a check that finds the baseline absent stores the
\* fetched snapshot as the baseline and emits no change: nothing is appended to the
\* history and nothing of it is handed to the callbacks.  (A failed fetch stores
\* nothing.)
C1_BaselineFromFirstFetch ==
    /\ \A i \in 1..Len(objs) :
           DOMAIN objs[i].baseline_data \subseteq DOMAIN last_ok[i]
    /\ Checked =>
           LET c == ev.check[1]
           IN  c.condition_type \notin DOMAIN c.before =>
                   /\ c.condition_type \notin DOMAIN c.last_before
                   /\ c.changes = <<>>
                   /\ Len(change_history) = ev.hist_len
                   /\ ev.batch \in {<<>>, c.acc}
                   /\ IF c.fetched.ok
                      THEN objs[c.obj].baseline_data =
                               SetBaseline(c.before, c.condition_type, c.fetched.data)
                      ELSE objs[c.obj].baseline_data = c.before

\* C1 witness: a first successful fetch of a type for a target has just been stored
C1_Witness ==
    /\ Checked
    /\ ev.check[1].fetched.ok
    /\ ev.check[1].condition_type \notin DOMAIN ev.check[1].before
    /\ ev.check[1].condition_type \in DOMAIN objs[ev.check[1].obj].baseline_data

\* C2: after a successful check of a (target, type) that had a baseline, the
\* stored baseline is the snapshot just fetched, whether or not a change was
\* emitted; the old value of every emitted change comes from the snapshot of the
\* preceding successful check of that (target, type).
C2_BaselineReplaced ==
    Checked =>
        LET c == ev.check[1]
            t == c.condition_type
        IN  (c.fetched.ok /\ t \in DOMAIN c.before) =>
                /\ objs[c.obj].baseline_data[t] = c.fetched.data
                /\ t \in DOMAIN c.last_before
                /\ \A j \in 1..Len(c.changes) :
                       /\ c.changes[j].metric \in DOMAIN c.last_before[t]
                       /\ c.changes[j].old_value = c.last_before[t][c.changes[j].metric]
                       /\ c.changes[j].new_value = c.fetched.data[c.changes[j].metric]

\* C2 witness: a successful check against a baseline fetched a different snapshot,
\* emitted no change, and the new snapshot is the baseline
C2_Witness ==
    /\ Checked
    /\ ev.check[1].fetched.ok
    /\ ev.check[1].condition_type \in DOMAIN ev.check[1].before
    /\ ev.check[1].before[ev.check[1].condition_type] # ev.check[1].fetched.data
    /\ ev.check[1].changes = <<>>
    /\ objs[ev.check[1].obj].baseline_data[ev.check[1].condition_type]
           = ev.check[1].fetched.data

\* C3 as stated: on a successful poll against a baseline from which the new
\* snapshot differs, exactly one change is emitted for each metric that both
\* snapshots carry and that has a threshold entry for the type, and none for any
\* other metric.
C3_OneChangePerMetric ==
    Checked =>
        LET c == ev.check[1]
            t == c.condition_type
        IN  (c.fetched.ok /\ t \in DOMAIN c.before /\ c.before[t] # c.fetched.data) =>
                LET compared == ComparedEntries(t, c.before[t], c.fetched.data)
                    metrics == {initialize_default_thresholds[i].metric : i \in compared}
                IN  /\ \A m \in metrics : ChangesFor(c.changes, m) = 1
                    /\ \A j \in 1..Len(c.changes) : c.changes[j].metric \in metrics

\* C3 amended: on a successful poll against a baseline, exactly one change is
\* emitted for each metric that both snapshots carry, that has a threshold entry
\* for the type, and whose classification is not MINOR with magnitude 0; none is
\* emitted for any other metric.
C3_OneChangePerChangedMetric ==
    Checked =>
        LET c == ev.check[1]
            t == c.condition_type
        IN  (c.fetched.ok /\ t \in DOMAIN c.before) =>
                LET old == c.before[t]
                    new == c.fetched.data
                    kept == {i \in ComparedEntries(t, old, new) :
                                LET th == initialize_default_thresholds[i]
                                    r == calculate_change_significance(
                                             th, old[th.metric], new[th.metric])
                                IN  r.significance # "minor"
                                    \/ MagPositive(r.change_magnitude)}
                    metrics == {initialize_default_thresholds[i].metric : i \in kept}
                IN  /\ Len(c.changes) = Cardinality(kept)
                    /\ \A m \in metrics : ChangesFor(c.changes, m) = 1
                    /\ \A j \in 1..Len(c.changes) : c.changes[j].metric \in metrics

\* C3 witness: a successful poll against a baseline compared a metric that had
\* changed and one that had not, and emitted a change for the first only
C3_Witness ==
    /\ Checked
    /\ ev.check[1].fetched.ok
    /\ ev.check[1].condition_type \in DOMAIN ev.check[1].before
    /\ Cardinality(ComparedEntries(ev.check[1].condition_type,
                                   ev.check[1].before[ev.check[1].condition_type],
                                   ev.check[1].fetched.data)) > Len(ev.check[1].changes)
    /\ Len(ev.check[1].changes) > 0

\* C4 as stated: when the provider call of a (target, type) fails during a tick or
\* a check_conditions_now, no change is emitted for it, its baseline is left as it
\* was, no error reaches the polling loop or the caller, and the round goes on to
\* its remaining targets and condition types.
C4_FailureIsolated ==
    (Checked /\ ~ev.check[1].fetched.ok) =>
        /\ ev.check[1].changes = <<>>
        /\ Len(change_history) = ev.hist_len
        /\ objs[ev.check[1].obj].baseline_data = ev.check[1].before
        /\ ~ev.raised
        /\ ev.returned # "error"

\* C4, the part that holds: a failed provider call emits no change and leaves the
\* baseline as it was
C4_FailureLeavesBaseline ==
    (Checked /\ ~ev.check[1].fetched.ok) =>
        /\ ev.check[1].changes = <<>>
        /\ Len(change_history) = ev.hist_len
        /\ objs[ev.check[1].obj].baseline_data = ev.check[1].before

\* C4 witness: the provider call of a target that was removed meanwhile failed and
\* the round ended there with an error, leaving a target of that type that was
\* registered before the round unchecked
C4_Witness ==
    /\ Checked
    /\ ~ev.check[1].fetched.ok
    /\ ev.raised \/ ev.returned = "error"
    /\ \A i \in 1..Len(monitoring_targets) : monitoring_targets[i] # ev.check[1].obj
    /\ \E i \in 1..Len(monitoring_targets) :
           /\ monitoring_targets[i] # 0
           /\ monitoring_targets[i] # ev.check[1].obj
           /\ ev.check[1].condition_type
                  \in objs[monitoring_targets[i]].monitoring_conditions
           /\ objs[monitoring_targets[i]].baseline_data = NoBaseline

\* C5 as stated: when a stop_monitoring call returns, every task spawned by
\* start_monitoring has ended.
C5_StopTerminatesAll ==
    (ev.op \in {"stop_monitoring", "stop_resume"} /\ ev.returned # "") =>
        \A k \in 1..Len(tasks) : ~Live(tasks[k])

\* C5 witness: a stop_monitoring call has returned while a poller is still in a
\* provider call
C5_Witness ==
    /\ ev.op = "stop_monitoring"
    /\ ev.returned = "ok"
    /\ \E k \in 1..Len(tasks) : tasks[k].pc = "fetch"

\* the step is a call of the public method op
Calls(op) == api_calls' = api_calls + 1 /\ ev'.op = op

\* C6: start_monitoring on a monitor that is not monitoring sets the flag and
\* creates exactly five tasks, one poller for each condition type and one cleanup
\* task, all of them in the task table; start_monitoring on a monitor that is
\* monitoring creates no task and changes no state.
C6_StartCreatesFiveTasks ==
    [][ Calls("start_monitoring") =>
            IF ~is_monitoring
            THEN LET created == (Len(tasks) + 1)..Len(tasks')
                 IN  /\ is_monitoring'
                     /\ SubSeq(tasks', 1, Len(tasks)) = tasks
                     /\ Cardinality(created) = 5
                     /\ ev'.spawned = 5
                     /\ \A t \in AllTypes :
                            Cardinality({k \in created :
                                            /\ tasks'[k].name # "cleanup"
                                            /\ tasks'[k].condition_type = t}) = 1
                     /\ Cardinality({k \in created : tasks'[k].name = "cleanup"}) = 1
                     /\ \A k \in created : Live(tasks'[k])
                     /\ {monitoring_tasks'[i] : i \in 1..Len(monitoring_tasks')} = created
            ELSE UNCHANGED <<is_monitoring, monitoring_tasks, tasks, monitoring_targets,
                             objs, update_callbacks, change_history, calls, fetches>>
      ]_vars

\* C6 witness: start_monitoring was called on a monitor that was monitoring
C6_Witness ==
    /\ ev.op = "start_monitoring"
    /\ ev.was_monitoring
    /\ is_monitoring
    /\ Len(tasks) = 5

\* C7: stop_monitoring on a monitor that is not monitoring returns without an
\* error and leaves the flag, the task table, the tasks, the targets with their
\* baselines, the history and the callback list as they were.
C7_StopWhenStoppedIsNoOp ==
    [][ (Calls("stop_monitoring") /\ ~is_monitoring) =>
            /\ ev'.returned = "ok"
            /\ UNCHANGED <<is_monitoring, monitoring_tasks, tasks, monitoring_targets,
                           objs, update_callbacks, change_history>>
      ]_vars

\* C7 witness: stop_monitoring was called on a monitor that an earlier
\* stop_monitoring had stopped
C7_Witness ==
    /\ ev.op = "stop_monitoring"
    /\ ~ev.was_monitoring
    /\ ev.returned = "ok"
    /\ tasks # <<>>
    /\ monitoring_tasks = <<>>
    /\ ~is_monitoring

-----------------------------------------------------------------------------
(* Properties of the classifier (SpecClassify) *)

\* the classifier has returned
Classified == cls.phase = "done"

\* minor <= moderate <= major <= critical
OrderedLadder(threshold) ==
    /\ threshold.minor_threshold <= threshold.moderate_threshold
    /\ threshold.moderate_threshold <= threshold.major_threshold
    /\ threshold.major_threshold <= threshold.critical_threshold

\* C8: the classifier returns CRITICAL when the magnitude is >= the critical
\* threshold, else MAJOR when >= major, else MODERATE when >= moderate or >= minor,
\* else MINOR.  MINOR is returned only for a magnitude strictly below the minor
\* threshold, on an ordered ladder a magnitude in [minor, moderate) yields MODERATE,
\* and the ladder 5/10/20/30 in absolute mode with old = 10, new = 42 gives
\* magnitude 32 and CRITICAL.
C8_LadderTopDown ==
    Classified =>
        LET t == cls.threshold
            m == cls.change_magnitude
            sig == cls.significance
            critical == MagGeq(m, t.critical_threshold)
            major == MagGeq(m, t.major_threshold)
            moderate == MagGeq(m, t.moderate_threshold)
            minor == MagGeq(m, t.minor_threshold)
        IN  /\ critical => sig = "critical"
            /\ ~critical /\ major => sig = "major"
            /\ ~critical /\ ~major /\ (moderate \/ minor) => sig = "moderate"
            /\ ~critical /\ ~major /\ ~moderate /\ ~minor => sig = "minor"
            /\ sig = "minor" => ~minor
            /\ OrderedLadder(t) /\ minor /\ ~moderate => sig = "moderate"
            /\ ( /\ t.comparison_type = "absolute"
                 /\ <<t.minor_threshold, t.moderate_threshold,
                      t.major_threshold, t.critical_threshold>> = <<5, 10, 20, 30>>
                 /\ cls.old_value = 10 /\ cls.new_value = 42 )
               => m = Mag(32, 1) /\ sig = "critical"

\* C8 witness: an ordered ladder with minor < moderate classified a magnitude in
\* [minor, moderate) as MODERATE
C8_Witness ==
    /\ Classified
    /\ OrderedLadder(cls.threshold)
    /\ cls.threshold.minor_threshold < cls.threshold.moderate_threshold
    /\ MagGeq(cls.change_magnitude, cls.threshold.minor_threshold)
    /\ ~MagGeq(cls.change_magnitude, cls.threshold.moderate_threshold)
    /\ cls.significance = "moderate"

\* C9: for any ladder, ordered or not, and any two value pairs, the pair of larger
\* magnitude never gets the lower significance; in absolute and percentage modes the
\* magnitude is 0 whenever old = new.
C9_Monotonic ==
    Classified =>
        /\ \A o \in ClassifyValues(cls.threshold), n \in ClassifyValues(cls.threshold) :
               LET other == calculate_change_significance(cls.threshold, o, n)
               IN  MagLeq(cls.change_magnitude, other.change_magnitude)
                       => SigRank(cls.significance) <= SigRank(other.significance)
        /\ ( /\ cls.threshold.comparison_type \in {"absolute", "percentage"}
             /\ cls.old_value = cls.new_value )
           => cls.change_magnitude.den # 0 /\ cls.change_magnitude.num = 0

\* C9 witness: a ladder that is not ordered classified a non-zero change, and
\* another pair of the same ladder has a strictly larger magnitude
C9_Witness ==
    /\ Classified
    /\ ~OrderedLadder(cls.threshold)
    /\ MagPositive(cls.change_magnitude)
    /\ cls.significance # "critical"
    /\ \E o \in ClassifyValues(cls.threshold), n \in ClassifyValues(cls.threshold) :
           ~MagLeq(calculate_change_significance(cls.threshold, o, n).change_magnitude,
                   cls.change_magnitude)

\* C10: in percentage mode the magnitude is |new - old| / |old| * 100 when old # 0;
\* when old = 0 it is infinite if new # 0, and then the significance is CRITICAL
\* whatever the ladder, and 0 if new = 0.
C10_Percentage ==
    (Classified /\ cls.threshold.comparison_type = "percentage") =>
        LET m == cls.change_magnitude
            old == cls.old_value
            new == cls.new_value
        IN  /\ old # 0 => /\ m.den # 0
                           /\ m.num * Abs(old) = Abs(new - old) * 100 * m.den
            /\ (old = 0 /\ new # 0) => m.den = 0 /\ cls.significance = "critical"
            /\ (old = 0 /\ new = 0) => m.den # 0 /\ m.num = 0

\* C10 witness: a percentage ladder classified a change from 0 to a non-zero value
C10_Witness ==
    /\ Classified
    /\ cls.threshold.comparison_type = "percentage"
    /\ cls.old_value = 0 /\ cls.new_value # 0
    /\ cls.significance = "critical"

\* the ordinal scales of the glossary, lowest first: the ordinal of a name is its
\* position, and 0 for a name that is not on the scale of the pair
OrdinalScale(condition_type, metric) ==
    IF <<condition_type, metric>> = <<"traffic", "congestion_level">>
    THEN <<"light", "moderate", "heavy", "severe">>
    ELSE IF <<condition_type, metric>> = <<"transit", "service_status">>
    THEN <<"normal", "minor_delays", "delays", "major_delays", "disrupted", "suspended",
           "cancelled">>
    ELSE IF <<condition_type, metric>> = <<"weather", "condition">>
    THEN <<"clear", "cloudy", "light_rain", "rain", "heavy_rain", "snow", "heavy_snow",
           "fog", "storm", "ice">>
    ELSE IF <<condition_type, metric>> = <<"parking", "availability">>
    THEN <<"abundant", "moderate", "limited", "scarce">>
    ELSE <<>>

Ordinal(scale, name) ==
    IF \E i \in 1..Len(scale) : scale[i] = name
    THEN CHOOSE i \in 1..Len(scale) : scale[i] = name
    ELSE 0

\* C11: in categorical mode the magnitude is |ordinal(new) - ordinal(old)| on the
\* fixed scale of the (condition type, metric) pair (traffic congestion_level
\* light=1..severe=4, transit service_status normal=1..cancelled=7, weather condition
\* clear=1..ice=10, parking availability abundant=1..scarce=4), a name that is not
\* on the scale having ordinal 0; transit service_status normal -> major_delays
\* gives magnitude 3.
C11_CategoricalMagnitude ==
    (Classified /\ cls.threshold.comparison_type = "categorical") =>
        LET scale == OrdinalScale(cls.threshold.condition_type, cls.threshold.metric)
            m == cls.change_magnitude
        IN  /\ m = Mag(Abs(Ordinal(scale, cls.new_value) - Ordinal(scale, cls.old_value)), 1)
            /\ ( /\ cls.threshold.condition_type = "transit"
                 /\ cls.threshold.metric = "service_status"
                 /\ cls.old_value = "normal" /\ cls.new_value = "major_delays" )
               => m = Mag(3, 1)

\* C11 witness: a categorical entry compared a name of its scale with a name that
\* is not on it, and the magnitude is the ordinal of the first
C11_Witness ==
    /\ Classified
    /\ cls.threshold.comparison_type = "categorical"
    /\ cls.old_value = "unknown"
    /\ cls.new_value \in DOMAIN get_category_values(cls.threshold.condition_type,
                                                     cls.threshold.metric)
    /\ cls.change_magnitude = Mag(get_category_values(cls.threshold.condition_type,
                                   cls.threshold.metric)[cls.new_value], 1)
    /\ cls.change_magnitude.num > 1

-----------------------------------------------------------------------------
(* Properties of the update trigger (SpecTrigger) *)

\* slot c of calls holds a dispatch the trigger's handler was entered in; the
\* handler has returned
Dispatching(c) == calls[c].op = "dispatch"

HandlerBegun(f) ==
    \E i \in 1..Len(f.log) :
        f.log[i].kind = "start" /\ f.log[i].cb = handle_condition_changes

HandlerDone(f) ==
    \E i \in 1..Len(f.log) :
        f.log[i].kind = "end" /\ f.log[i].cb = handle_condition_changes

\* the callbacks of a set called so far in a dispatch, in call order
Called(f, set) ==
    LET starts == SelectSeq(f.log, LAMBDA e : e.kind = "start" /\ e.set = set)
    IN  [i \in 1..Len(starts) |-> starts[i].cb]

IsPrefix(s, t) == Len(s) <= Len(t) /\ SubSeq(t, 1, Len(s)) = s

\* the changes of a batch a policy enables, and those of them that affect routes
PolicyEnabled(policy, changes) ==
    SelectSeq(changes, LAMBDA change : policy[change.significance])

RouteAffecting(changes) ==
    SelectSeq(changes, LAMBDA change : change.condition_type \in {"traffic", "transit"})

\* C12: of a batch the trigger receives, only changes whose significance the policy
\* enables reach a route or recommendation callback; when the policy enables no
\* change of the batch, no callback of either set is called; under the default
\* policy a batch of one MINOR and one MAJOR change delivers the MAJOR change only.
C12_PolicyFilters ==
    \A c \in 1..MaxCalls :
        (Dispatching(c) /\ HandlerBegun(calls[c])) =>
            LET f == calls[c]
                delivered == {i \in 1..Len(f.log) : f.log[i].set \in {"route", "rec"}}
            IN  /\ \A i \in delivered :
                       \A k \in 1..Len(f.log[i].batch) :
                           /\ f.policy[f.log[i].batch[k].significance]
                           /\ \E h \in 1..Len(f.changes) : f.changes[h] = f.log[i].batch[k]
                /\ (\A h \in 1..Len(f.changes) : ~f.policy[f.changes[h].significance])
                       => delivered = {}
                /\ ( /\ f.policy = default_update_triggers
                     /\ Len(f.changes) = 2
                     /\ f.changes[1].significance = "minor"
                     /\ f.changes[2].significance = "major" )
                       => \A i \in delivered : f.log[i].batch = <<f.changes[2]>>

\* C12 witness: under the default policy the handler has returned from a batch of
\* one MINOR and one MAJOR change, and a recommendation callback was called with
\* the MAJOR change alone
C12_Witness ==
    \E c \in 1..MaxCalls :
        /\ Dispatching(c) /\ HandlerDone(calls[c])
        /\ calls[c].policy = default_update_triggers
        /\ Len(calls[c].changes) = 2
        /\ calls[c].changes[1].significance = "minor"
        /\ calls[c].changes[2].significance = "major"
        /\ \E i \in 1..Len(calls[c].log) :
               /\ calls[c].log[i].set = "rec"
               /\ calls[c].log[i].batch = <<calls[c].changes[2]>>

\* C13: for each batch the trigger receives, every recommendation callback is
\* called with exactly the policy-enabled changes in batch order and every route
\* callback with exactly those of them whose condition type is TRAFFIC or TRANSIT;
\* when the enabled changes are all WEATHER or PARKING no route callback is called,
\* and the recommendation callbacks registered when the handler was entered are all
\* called.
C13_RouteAndRecommendationLists ==
    \A c \in 1..MaxCalls :
        (Dispatching(c) /\ HandlerBegun(calls[c])) =>
            LET f == calls[c]
                enabled == PolicyEnabled(f.policy, f.changes)
            IN  /\ \A i \in 1..Len(f.log) :
                       /\ f.log[i].set = "rec" => f.log[i].batch = enabled
                       /\ f.log[i].set = "route" =>
                              /\ f.log[i].batch = RouteAffecting(enabled)
                              /\ f.log[i].batch # <<>>
                /\ (HandlerDone(f) /\ enabled # <<>>) => IsPrefix(f.rec0, Called(f, "rec"))

\* C13 witness: the handler has returned from a batch whose enabled changes are
\* WEATHER and PARKING: no route callback was called although one is registered,
\* and a recommendation callback was called with both changes
C13_Witness ==
    \E c \in 1..MaxCalls :
        /\ Dispatching(c) /\ HandlerDone(calls[c])
        /\ Len(PolicyEnabled(calls[c].policy, calls[c].changes)) = 2
        /\ RouteAffecting(calls[c].changes) = <<>>
        /\ calls[c].route0 # <<>>
        /\ Called(calls[c], "route") = <<>>
        /\ Called(calls[c], "rec") # <<>>

\* C14: in the dispatch of one batch every call of a route callback comes before
\* every call of a recommendation callback; each set is called in registration
\* order, and the route callbacks registered when the handler was entered have all
\* been called and have ended when the first recommendation callback is called.
C14_RouteBeforeRecommendation ==
    \A c \in 1..MaxCalls :
        Dispatching(c) =>
            LET f == calls[c]
                recs == {i \in 1..Len(f.log) : f.log[i].set = "rec"}
                routes == {i \in 1..Len(f.log) : f.log[i].set = "route"}
            IN  /\ \A i \in recs : \A j \in routes : j < i
                /\ IsPrefix(Called(f, "route"), route_update_callbacks)
                /\ IsPrefix(Called(f, "rec"), recommendation_update_callbacks)
                /\ (recs # {} /\ f.route_changes # <<>>) =>
                       /\ IsPrefix(f.route0, Called(f, "route"))
                       /\ Cardinality(routes) = 2 * Len(Called(f, "route"))

\* C14 witness: two route callbacks were called, in the order of their
\* registration, and then a recommendation callback
C14_Witness ==
    \E c \in 1..MaxCalls :
        /\ Dispatching(c)
        /\ Len(Called(calls[c], "route")) = 2
        /\ Called(calls[c], "route") = route_update_callbacks
        /\ Called(calls[c], "rec") # <<>>

\* the place of a callback in a list that holds it once
Position(callbacks, callback) ==
    CHOOSE k \in 1..Len(callbacks) : callbacks[k] = callback

\* the place in raw0 of the raw-change callback the call of log entry e belongs to
RawPosition(f, e) ==
    Position(f.raw0, IF e.set = "raw" THEN e.cb ELSE handle_condition_changes)

Registered(callback) ==
    \E k \in 1..Len(update_callbacks) : update_callbacks[k] = callback

WasCalled(f, set, callback) ==
    \E i \in 1..Len(f.log) :
        f.log[i].kind = "start" /\ f.log[i].set = set /\ f.log[i].cb = callback

\* C15: when a callback has raised in the dispatch of a batch, the dispatch does
\* not raise into the polling loop (no back-off) or into check_conditions_now, and
\* when it has returned, the route and recommendation callbacks registered when the
\* handler was entered were all called with the batch's lists, and every raw-change
\* callback that was registered behind the raising one when the dispatch began and
\* is registered still was called with the batch.
C15_FailureIsolated ==
    \A c \in 1..MaxCalls :
        Dispatching(c) =>
            LET f == calls[c]
                raised == {i \in 1..Len(f.log) : f.log[i].kind = "end" /\ f.log[i].raised}
            IN  (raised # {} /\ f.pc \in {"returned", "raised"}) =>
                    /\ PollerAfterNotify(f.pc) = "sleep"
                    /\ CheckAfterNotify(f.pc) = "returned"
                    /\ (HandlerBegun(f) /\ f.rec_changes # <<>>) =>
                           /\ IsPrefix(f.rec0, Called(f, "rec"))
                           /\ f.route_changes # <<>> => IsPrefix(f.route0, Called(f, "route"))
                    /\ \A i \in raised :
                           \A k \in 1..Len(f.raw0) :
                               (k > RawPosition(f, f.log[i]) /\ Registered(f.raw0[k]))
                                   => WasCalled(f, "raw", f.raw0[k])

\* C15 witness: a dispatch has returned in which the first raw-change callback
\* raised and the trigger's handler, registered behind it then and now, was never
\* called
C15_Witness ==
    \E c \in 1..MaxCalls :
        /\ Dispatching(c) /\ calls[c].pc = "returned"
        /\ Len(calls[c].raw0) >= 2
        /\ calls[c].raw0[2] = handle_condition_changes
        /\ Registered(handle_condition_changes)
        /\ \E i \in 1..Len(calls[c].log) :
               /\ calls[c].log[i].kind = "end" /\ calls[c].log[i].raised
               /\ calls[c].log[i].cb = calls[c].raw0[1]
        /\ ~WasCalled(calls[c], "raw", handle_condition_changes)

\* the part of C15 that does not depend on the raw-change list: no dispatch raises
\* into its caller, and a raising route or recommendation callback stops neither
\* its own set nor the other one
C15_ErrorsAbsorbed ==
    \A c \in 1..MaxCalls :
        Dispatching(c) =>
            LET f == calls[c]
            IN  /\ f.pc # "raised"
                /\ (HandlerDone(f) /\ f.rec_changes # <<>>) =>
                       /\ IsPrefix(f.rec0, Called(f, "rec"))
                       /\ f.route_changes # <<>> => IsPrefix(f.route0, Called(f, "route"))

\* a route callback raised and a recommendation callback was called after it
C15_AbsorbedWitness ==
    \E c \in 1..MaxCalls :
        /\ Dispatching(c)
        /\ \E i \in 1..Len(calls[c].log) :
               /\ calls[c].log[i].kind = "end" /\ calls[c].log[i].raised
               /\ calls[c].log[i].set = "route"
               /\ \E j \in (i + 1)..Len(calls[c].log) : calls[c].log[j].set = "rec"

\* C16: the callbacks of one batch are called one at a time: the call of a callback
\* has ended before the next callback of the dispatch is called, a coroutine
\* callback being awaited until it ends (the dispatch is suspended exactly while
\* the last call is one that has not ended), and all callbacks of a set, plain or
\* coroutine, are called with the same list.
C16_OneAtATime ==
    \A c \in 1..MaxCalls :
        Dispatching(c) =>
            LET f == calls[c]
                n == Len(f.log)
                Plain(e) == e.cb # handle_condition_changes
            IN  /\ \A i \in 1..n :
                       (f.log[i].kind = "start" /\ Plain(f.log[i])) =>
                           IF i < n
                           THEN /\ f.log[i + 1].kind = "end"
                                /\ f.log[i + 1].cb = f.log[i].cb
                                /\ f.log[i + 1].set = f.log[i].set
                                /\ f.log[i + 1].batch = f.log[i].batch
                           ELSE /\ f.pc = "await"
                                /\ f.cb = f.log[i].cb
                                /\ iscoroutinefunction(f.log[i].cb)
                /\ \A i \in 1..n :
                       (f.log[i].kind = "end" /\ Plain(f.log[i])) =>
                           i > 1 /\ f.log[i - 1].kind = "start" /\ f.log[i - 1].cb = f.log[i].cb
                /\ \A i \in 1..n :
                       (f.log[i].kind = "start" /\ ~Plain(f.log[i])) =>
                           \A j \in (i + 1)..n :
                               f.log[j].set = "raw" =>
                                   \E h \in (i + 1)..j : f.log[h].kind = "end" /\ ~Plain(f.log[h])
                /\ f.pc = "await" <=>
                       (n > 0 /\ f.log[n].kind = "start" /\ Plain(f.log[n]))
                /\ \A i, j \in 1..n : f.log[i].set = f.log[j].set => f.log[i].batch = f.log[j].batch

\* C16 witness: a coroutine callback has ended, and the next callback of its set, a
\* plain function, was called after that with the same list
C16_Witness ==
    \E c \in 1..MaxCalls :
        /\ Dispatching(c)
        /\ \E i \in 1..(Len(calls[c].log) - 1) :
               /\ calls[c].log[i].kind = "end"
               /\ calls[c].log[i].cb # handle_condition_changes
               /\ iscoroutinefunction(calls[c].log[i].cb)
               /\ calls[c].log[i + 1].kind = "start"
               /\ calls[c].log[i + 1].set = calls[c].log[i].set
               /\ ~iscoroutinefunction(calls[c].log[i + 1].cb)
               /\ calls[c].log[i + 1].batch = calls[c].log[i].batch

\* C17: set_update_trigger_threshold(significance, enabled) changes that entry of
\* the policy and nothing else; the handler reads the policy that is in force when
\* it is entered, and every list it delivers for the batch, also after the policy
\* was changed while the dispatch was suspended in a callback, is the batch
\* filtered with the policy read then.
C17_ThresholdTakesEffectOnNextBatch ==
    /\ [](\A c \in 1..MaxCalls :
              (Dispatching(c) /\ HandlerBegun(calls[c])) =>
                  LET f == calls[c]
                  IN  \A i \in 1..Len(f.log) :
                          /\ (f.log[i].kind = "start" /\ f.log[i].cb = handle_condition_changes)
                                 => f.policy = f.log[i].triggers
                          /\ f.log[i].set = "rec"
                                 => f.log[i].batch = PolicyEnabled(f.policy, f.changes)
                          /\ f.log[i].set = "route"
                                 => f.log[i].batch = RouteAffecting(PolicyEnabled(f.policy, f.changes)))
    /\ [][ev'.op = "set_update_trigger_threshold" =>
              /\ update_triggers' = [update_triggers EXCEPT ![ev'.result[1]] = ev'.result[2]]
              /\ UNCHANGED <<calls, update_callbacks, route_update_callbacks,
                             recommendation_update_callbacks, change_history>>]_vars

\* C17 witness: a recommendation callback was called after the policy had been
\* changed during the dispatch, with the list the old policy gives, which is not the
\* list the policy in force at the call gives
C17_Witness ==
    \E c \in 1..MaxCalls :
        /\ Dispatching(c)
        /\ \E i \in 1..Len(calls[c].log) :
               /\ calls[c].log[i].kind = "start" /\ calls[c].log[i].set = "rec"
               /\ calls[c].log[i].triggers # calls[c].policy
               /\ calls[c].log[i].batch = PolicyEnabled(calls[c].policy, calls[c].changes)
               /\ calls[c].log[i].batch
                      # PolicyEnabled(calls[c].log[i].triggers, calls[c].changes)

-----------------------------------------------------------------------------
(* Properties of the change history (Spec) *)

\* C18: after any sequence of poller ticks, check_conditions_now calls and
\* compaction runs the change history holds at most _max_history_size entries.
C18_HistoryBounded == Len(change_history) <= max_size

\* C18 witness: the monitor is running, its cleanup task is in its hourly sleep, and
\* the history is longer than _max_history_size
C18_Witness ==
    /\ is_monitoring
    /\ \E k \in 1..Len(tasks) : ~IsPoller(k) /\ tasks[k].pc = "top" /\ ~tasks[k].must_cancel
    /\ Len(change_history) > max_size

-----------------------------------------------------------------------------
(* Properties of the change history on its own (SpecHistory) *)

\* C19: a compaction run on a history longer than _max_history_size leaves exactly
\* its last max/2 entries, max/2 rounded up when max is odd, in their order; a run
\* on a history of at most _max_history_size entries leaves it as it is.
C19_CompactionKeepsRecentHalf ==
    [][ev'.op = "cleanup_change_history" =>
           LET n == Len(change_history)
               half == (max_size + (max_size % 2)) \div 2
           IN  IF n > max_size
               THEN /\ Len(change_history') = half
                    /\ \A i \in 1..half : change_history'[i] = change_history[n - half + i]
               ELSE change_history' = change_history]_vars

\* C19 witness: a compaction run has shortened a history that was longer than an
\* odd _max_history_size
C19_Witness ==
    /\ ev.op = "cleanup_change_history"
    /\ max_size = 3
    /\ ev.hist_len > max_size
    /\ Len(change_history) = 2

\* the window of get_change_history at the present moment
InWindow(change, hours_back) == now - change.timestamp <= hours_back

\* C20: get_change_history(condition_type, significance, hours_back) returns
\* exactly the entries of the history that are not older than hours_back hours and
\* match each filter that is given, in the order of the history; without a filter
\* it returns the whole window; the call leaves the history as it is.
C20_QueryReturnsWindow ==
    /\ [](ev.op = "get_change_history" =>
              LET condition_type == ev.check[1]
                  significance == ev.check[2]
                  hours_back == ev.check[3]
                  Matches(change) ==
                      /\ InWindow(change, hours_back)
                      /\ condition_type = None \/ change.condition_type = condition_type
                      /\ significance = None \/ change.significance = significance
                  Window(change) == InWindow(change, hours_back)
              IN  /\ ev.result = SelectSeq(change_history, Matches)
                  /\ (condition_type = None /\ significance = None)
                         => ev.result = SelectSeq(change_history, Window))
    /\ [][ev'.op = "get_change_history" => change_history' = change_history]_vars

\* C20 witness: a query with both filters returned an entry stamped exactly
\* hours_back hours ago, while the history holds an older entry, an entry of
\* another type and an entry of another significance inside the window
C20_Witness ==
    /\ ev.op = "get_change_history"
    /\ ev.check[1] # None /\ ev.check[2] # None
    /\ \E i \in 1..Len(ev.result) : now - ev.result[i].timestamp = ev.check[3]
    /\ \E i \in 1..Len(change_history) : ~InWindow(change_history[i], ev.check[3])
    /\ \E i \in 1..Len(change_history) :
           /\ InWindow(change_history[i], ev.check[3])
           /\ change_history[i].condition_type # ev.check[1]
    /\ \E i \in 1..Len(change_history) :
           /\ InWindow(change_history[i], ev.check[3])
           /\ change_history[i].condition_type = ev.check[1]
           /\ change_history[i].significance # ev.check[2]

-----------------------------------------------------------------------------
(* Properties of the registry, the rounds and the status (Spec) *)

\* the ids of the registered targets, and the target object registered for an id
RegisteredIds(entries) == {objs[entries[i]].target_id : i \in {j \in 1..Len(entries) : entries[j] # 0}}

\* the slots of the dict that hold a target with the id
SlotsOf(entries, all_objs, target_id) ==
    {i \in 1..Len(entries) : entries[i] # 0 /\ all_objs[entries[i]].target_id = target_id}

\* C21: after add_monitoring_target(id, origin, destination, conditions) the registry
\* holds exactly one target for id, with the arguments of this call (all four
\* condition types when conditions is not given) ; the number of targets has grown
\* by one when id was not registered and is as before when it was (so it is the
\* number of distinct ids added and not removed: no two registered targets share an
\* id, and only add and remove change the registry); targets with other ids are
\* left as they are.
C21_AddRegistersOrOverwrites ==
    /\ [](\A i, j \in 1..Len(monitoring_targets) :
              ( /\ monitoring_targets[i] # 0 /\ monitoring_targets[j] # 0
                /\ objs[monitoring_targets[i]].target_id = objs[monitoring_targets[j]].target_id )
                  => i = j)
    /\ [][ /\ Calls("add_monitoring_target") =>
                LET target_id == ev'.args[1]
                    route == ev'.args[2]
                    arg == ev'.args[3]
                    slots == SlotsOf(monitoring_targets', objs', target_id)
                IN  /\ Cardinality(slots) = 1
                    /\ \A i \in slots :
                           LET target == objs'[monitoring_targets'[i]]
                           IN  /\ target.route = route
                               /\ target.monitoring_conditions =
                                      IF arg.given THEN arg.conditions
                                      ELSE {"traffic", "transit", "weather", "parking"}
                    /\ DictUsed(monitoring_targets') =
                           IF target_id \in RegisteredIds(monitoring_targets)
                           THEN DictUsed(monitoring_targets)
                           ELSE DictUsed(monitoring_targets) + 1
                    /\ \A i \in 1..Len(monitoring_targets) :
                           ( /\ monitoring_targets[i] # 0
                             /\ objs[monitoring_targets[i]].target_id # target_id )
                               => /\ monitoring_targets'[i] = monitoring_targets[i]
                                  /\ objs'[monitoring_targets[i]] = objs[monitoring_targets[i]]
           /\ ~(Calls("add_monitoring_target") \/ Calls("remove_monitoring_target"))
                  => monitoring_targets' = monitoring_targets ]_vars

\* C21 witness: a second add_monitoring_target for an id, with other conditions than
\* the first, has replaced its target: the registry holds the new target alone
C21_Witness ==
    /\ ev.op = "add_monitoring_target"
    /\ Len(objs) = 2
    /\ objs[1].target_id = objs[2].target_id
    /\ objs[1].monitoring_conditions # objs[2].monitoring_conditions
    /\ monitoring_targets = <<2>>

\* C22: remove_monitoring_target(id) returns True and deletes exactly the target of
\* id when id is registered; when it is not, it returns False, raises nothing and
\* leaves the registry as it is.
C22_RemoveReturnsFound ==
    [][ Calls("remove_monitoring_target") =>
            LET target_id == ev'.args[1]
            IN  /\ ev'.returned = "ok"
                /\ objs' = objs
                /\ IF target_id \in RegisteredIds(monitoring_targets)
                   THEN /\ ev'.result = <<TRUE>>
                        /\ RegisteredIds(monitoring_targets')
                               = RegisteredIds(monitoring_targets) \ {target_id}
                        /\ DictUsed(monitoring_targets') = DictUsed(monitoring_targets) - 1
                        /\ \A i \in 1..Len(monitoring_targets) :
                               ( /\ monitoring_targets[i] # 0
                                 /\ objs[monitoring_targets[i]].target_id # target_id )
                                   => monitoring_targets'[i] = monitoring_targets[i]
                   ELSE /\ ev'.result = <<FALSE>>
                        /\ monitoring_targets' = monitoring_targets ]_vars

\* C22 witness: a remove_monitoring_target of an id that was added and removed before
\* has returned False, another target being registered
C22_Witness ==
    /\ ev.op = "remove_monitoring_target"
    /\ ev.result = <<FALSE>>
    /\ \E i \in 1..Len(objs) : objs[i].target_id = ev.args[1]
    /\ ev.args[1] \notin RegisteredIds(monitoring_targets)
    /\ RegisteredIds(monitoring_targets) # {}

\* a round (a poller's tick or a check_conditions_now) ended in this step with the
\* RuntimeError of the dict iterator
RoundFailed == ev.raised \/ (ev.op \in {"check_conditions_now", "call_fetch_return"}
                                /\ ev.returned = "error")

\* C23: a tick and a check_conditions_now() for all targets work on the targets as
\* they were when the round began: no round fails, whatever is added or removed
\* while it is suspended in a provider call.
C23_RoundsOnSnapshot == ~RoundFailed

\* C23 witness: the provider call of a round succeeded, the round ended there with
\* an error because a target had been removed meanwhile, and a target of that
\* type that was registered before is left unchecked
C23_Witness ==
    /\ Checked
    /\ ev.check[1].fetched.ok
    /\ RoundFailed
    /\ \A i \in 1..Len(monitoring_targets) : monitoring_targets[i] # ev.check[1].obj
    /\ \E i \in 1..Len(monitoring_targets) :
           /\ monitoring_targets[i] # 0
           /\ ev.check[1].condition_type
                  \in objs[monitoring_targets[i]].monitoring_conditions
           /\ objs[monitoring_targets[i]].baseline_data = NoBaseline

\* C23, the part that holds: a tick that begins reads the registry as it is then:
\* its first provider call is for the first registered target that monitors the
\* type, whenever that target was added, and it makes none when no registered target
\* monitors the type
C23_RoundBeginsOnRegistry ==
    [][ \A k \in 1..Len(tasks) :
            ( /\ IsPoller(k) /\ tasks[k].pc \in {"top", "backoff"}
              /\ tasks'[k] # tasks[k] /\ Live(tasks'[k]) /\ ~tasks'[k].must_cancel ) =>
                LET monitoring == {i \in 1..Len(monitoring_targets) :
                                      /\ monitoring_targets[i] # 0
                                      /\ tasks[k].condition_type
                                             \in objs[monitoring_targets[i]].monitoring_conditions}
                IN  IF monitoring = {} THEN tasks'[k].pc = "top"
                    ELSE /\ tasks'[k].pc = "fetch"
                         /\ \E i \in monitoring :
                                /\ tasks'[k].cur = monitoring_targets[i]
                                /\ \A h \in monitoring : i <= h ]_vars

\* C24: the changes of a tick go to the callbacks in that tick: when the last
\* provider call of a tick has returned and the tick has collected a change, the
\* tick does not end in the except clause but calls the callbacks with the batch
\* of all its changes before it sleeps; a tick without a change calls no callback.
C24_TickDispatchesBatch ==
    (ev.op = "poller_fetch_return") =>
        LET c == ev.check[1]
            all == c.acc \o c.changes
            t == tasks[ev.task]
        IN  IF t.pc = "fetch" \/ all = <<>>
            THEN ev.invoked = <<>> /\ ev.batch = <<>>
            ELSE /\ t.pc \in {"top", "notify"}
                 /\ update_callbacks # <<>> => (ev.invoked # <<>> /\ ev.batch = all)

\* C24 witness: a tick that had collected a change ended in the except clause of
\* the polling loop: a callback is registered and was not called
C24_Witness ==
    /\ ev.op = "poller_fetch_return"
    /\ ev.check[1].acc \o ev.check[1].changes # <<>>
    /\ tasks[ev.task].pc = "backoff"
    /\ update_callbacks # <<>>
    /\ ev.invoked = <<>>

\* C24, the part that holds: a tick that ends without an error has called the
\* callbacks with the batch of all its changes, or has no change and called none
C24_CompletedTickDispatches ==
    (ev.op = "poller_fetch_return" /\ ~ev.raised) =>
        LET c == ev.check[1]
            all == c.acc \o c.changes
            t == tasks[ev.task]
        IN  IF t.pc = "fetch" \/ all = <<>>
            THEN ev.invoked = <<>> /\ ev.batch = <<>>
            ELSE /\ t.pc \in {"top", "notify"}
                 /\ update_callbacks # <<>> => (ev.invoked # <<>> /\ ev.batch = all)

\* a completed tick has dispatched a batch of changes to a callback
C24_CompletedWitness ==
    /\ ev.op = "poller_fetch_return" /\ ~ev.raised
    /\ ev.batch # <<>>
    /\ ev.batch = ev.check[1].acc \o ev.check[1].changes

\* C25: an exception in a tick does not end the polling loop: the task goes to the
\* sleep of twice the interval (and only a tick that raised goes there), the next
\* thing it does is a tick, which ends in the sleep of the normal interval when it
\* raises nothing; a polling task ends only when it is cancelled or finds the
\* monitoring flag cleared.
C25_PollingLoopSurvives ==
    [][ \A k \in 1..Len(tasks) :
            IsPoller(k) =>
                LET raised == /\ ev'.op = "poller_fetch_return" /\ ev'.task = k
                              /\ ev'.raised /\ tasks'[k] # tasks[k]
                IN  /\ raised => tasks'[k].pc = "backoff"
                    /\ (tasks[k].pc # "backoff" /\ tasks'[k].pc = "backoff") => raised
                    /\ (Live(tasks[k]) /\ ~Live(tasks'[k]))
                           => (tasks[k].must_cancel \/ ~is_monitoring)
                    /\ ( /\ tasks[k].pc = "backoff" /\ tasks'[k].pc # "backoff"
                         /\ Live(tasks'[k]) )
                           => /\ tasks'[k].pc \in {"fetch", "top"}
                              /\ is_monitoring ]_vars

\* C25 witness: a poller whose tick had raised has slept twice its interval and
\* has begun its next tick
C25_Witness ==
    /\ ev.op = "poller_loop"
    /\ ev.args = <<"backoff">>
    /\ tasks[ev.task].pc = "fetch"
    /\ is_monitoring

\* last_checked of a target that was never checked (None)
NeverChecked == -1

\* C26: when a tick has polled a target, the target's last_checked is set and is
\* not older than the start of the tick.
C26_TickUpdatesLastChecked ==
    (ev.op = "poller_fetch_return") =>
        /\ objs[ev.check[1].obj].last_checked # NeverChecked
        /\ objs[ev.check[1].obj].last_checked <= now

\* C26 witness: the second tick of a poller has polled a target, compared it with its
\* baseline, and the target's last_checked is still None
C26_Witness ==
    /\ ev.op = "poller_fetch_return"
    /\ ev.check[1].fetched.ok
    /\ ev.check[1].condition_type \in DOMAIN ev.check[1].before
    /\ objs[ev.check[1].obj].last_checked = NeverChecked

\* C26, the part that holds: a check_conditions_now that has gone through all
\* condition types of a target has set the target's last_checked
C26_CheckNowUpdatesLastChecked ==
    (ev.op = "call_fetch_return" /\ calls[ev.call].op = "idle" /\ ev.returned = "ok") =>
        objs[ev.check[1].obj].last_checked = now

\* the registered targets other than the one of an id
OtherTargets(entries, target_id) ==
    {i \in 1..Len(entries) : entries[i] # 0 /\ objs[entries[i]].target_id # target_id}

\* C27: check_conditions_now(id) for a registered id checks the target of id and no
\* other, condition types of its monitored set only; for an id that is not
\* registered it returns an empty list without an error and changes no state; no
\* call ends with an error; and a call that has gone through its checks hands its
\* changes, when there are any, to the callbacks as one batch, which is the list it
\* returns.
C27_CheckNowChecksTheTarget ==
    /\ [](ev.op \in {"check_conditions_now", "call_fetch_return", "call_notify_return"} =>
              /\ ev.returned # "error"
              /\ ev.invoked # <<>> => ev.batch = ev.result
              /\ (ev.returned = "ok" /\ ev.op # "call_notify_return"
                      /\ ev.result # <<>> /\ update_callbacks # <<>>)
                     => ev.batch = ev.result
              /\ ev.op = "call_fetch_return" =>
                     ev.check[1].condition_type
                         \in objs[ev.check[1].obj].monitoring_conditions)
    /\ [][ (Calls("check_conditions_now") /\ ev'.args[1].given) =>
               LET target_id == ev'.args[1].target_id
                   slots == SlotsOf(monitoring_targets, objs, target_id)
                   f == calls'[ev'.call]
               IN  IF slots = {}
                   THEN /\ ev'.returned = "ok" /\ ev'.result = <<>>
                        /\ UNCHANGED <<monitoring_targets, objs, change_history, calls,
                                       fetches, update_callbacks, tasks, is_monitoring>>
                   ELSE /\ ev'.returned # "error"
                        /\ f.op = "check" =>
                               /\ \A i \in slots : f.obj = monitoring_targets[i]
                               /\ f.all => OtherTargets(monitoring_targets, target_id) = {} ]_vars

\* C27 witness: check_conditions_now("") was called while "" and another id are
\* registered, and the call goes through all targets
C27_Witness ==
    /\ ev.op = "check_conditions_now"
    /\ ev.args[1].given /\ ev.args[1].target_id = ""
    /\ "" \in RegisteredIds(monitoring_targets)
    /\ OtherTargets(monitoring_targets, "") # {}
    /\ calls[ev.call].op = "check" /\ calls[ev.call].all

\* C27, the part that holds: called with an id that is a non-empty string
C27_CheckNowNonEmptyId ==
    [][ (Calls("check_conditions_now") /\ ev'.args[1].given /\ ev'.args[1].target_id # "") =>
            LET target_id == ev'.args[1].target_id
                slots == SlotsOf(monitoring_targets, objs, target_id)
                f == calls'[ev'.call]
            IN  IF slots = {}
                THEN /\ ev'.returned = "ok" /\ ev'.result = <<>>
                     /\ UNCHANGED <<monitoring_targets, objs, change_history, calls,
                                    fetches, update_callbacks, tasks, is_monitoring>>
                ELSE /\ ev'.returned # "error"
                     /\ f.op = "check" =>
                            /\ \A i \in slots : f.obj = monitoring_targets[i]
                            /\ ~f.all ]_vars

\* the monitoring tasks that have not ended
UnfinishedTasks == {k \in 1..Len(tasks) : Live(tasks[k])}

\* what a status report says apart from the number of active tasks
StatusFigures(st) ==
    /\ st.is_monitoring = is_monitoring
    /\ st.total_targets = Cardinality(RegisteredIds(monitoring_targets))
    /\ st.registered_callbacks = Len(update_callbacks)
    /\ Len(st.recent_changes) =
           (IF Len(change_history) < recent_changes_size
            THEN Len(change_history) ELSE recent_changes_size)
    /\ \A i \in 1..Len(st.recent_changes) :
           LET h == change_history[Len(change_history) - Len(st.recent_changes) + i]
           IN  /\ st.recent_changes[i].condition_type = h.condition_type
               /\ st.recent_changes[i].metric = h.metric
               /\ st.recent_changes[i].significance = h.significance
               /\ st.recent_changes[i].timestamp = h.timestamp

\* the program's state apart from the history variables
monitor_state ==
    <<is_monitoring, monitoring_tasks, tasks, monitoring_targets, objs,
      update_callbacks, change_history, calls, now, fetches>>

\* C28: get_monitoring_status changes no state, and its report gives the monitoring
\* flag, the size of the registry as total_targets, the number of monitoring tasks
\* that have not ended as active_tasks, the number of registered callbacks, and as
\* recent_changes the last min(recent_changes_size, len(history)) entries of the
\* history in order.
C28_StatusReportsState ==
    /\ [](ev.op = "get_monitoring_status" =>
             /\ ev.returned = "ok"
             /\ StatusFigures(ev.result[1])
             /\ ev.result[1].active_tasks = Cardinality(UnfinishedTasks))
    /\ [][ev'.op = "get_monitoring_status" /\ api_calls' = api_calls + 1
              => UNCHANGED monitor_state]_vars

\* a status is reported while tasks of an earlier start_monitoring are still
\* running beside the task table
C28_Witness ==
    /\ ev.op = "get_monitoring_status"
    /\ is_monitoring
    /\ \E k \in UnfinishedTasks :
           \A i \in 1..Len(monitoring_tasks) : monitoring_tasks[i] # k

\* What holds of C28: the report changes no state and gives the flag, the registry
\* size, the callbacks and the recent changes; active_tasks is the number of tasks
\* of the task table that have not ended.
C28_StatusReportsTable ==
    /\ [](ev.op = "get_monitoring_status" =>
             /\ ev.returned = "ok"
             /\ StatusFigures(ev.result[1])
             /\ ev.result[1].active_tasks =
                    Cardinality({k \in UnfinishedTasks :
                                    \E i \in 1..Len(monitoring_tasks) :
                                        monitoring_tasks[i] = k}))
    /\ [][ev'.op = "get_monitoring_status" /\ api_calls' = api_calls + 1
              => UNCHANGED monitor_state]_vars

\* a status is reported with a history longer than the slice and a finished task in
\* the table
C28_TableWitness ==
    /\ ev.op = "get_monitoring_status"
    /\ Len(change_history) > recent_changes_size
    /\ ev.result[1].total_targets > 0

\* the number of registrations of callback in list
Registrations(list, callback) ==
    Cardinality({j \in 1..Len(list) : list[j] = callback})

\* C29: unregister_update_callback(cb) returns true and removes one registration of
\* cb when cb is registered, leaving the other registrations as they were; it
\* returns false and leaves the list unchanged when cb is not registered; and a
\* callback that is not registered (any more) is invoked for no batch.
C29_UnregisterRemovesOne ==
    /\ [](\A i \in 1..Len(ev.invoked) :
             Registrations(update_callbacks, ev.invoked[i]) > 0)
    /\ [][ev'.op = "unregister_update_callback" /\ api_calls' = api_calls + 1 =>
             LET cb == ev'.args[1]
                 n == Registrations(update_callbacks, cb)
             IN  /\ ev'.returned = "ok"
                 /\ ev'.result = <<n > 0>>
                 /\ n = 0 => UNCHANGED update_callbacks
                 /\ n > 0 =>
                        /\ Len(update_callbacks') = Len(update_callbacks) - 1
                        /\ Registrations(update_callbacks', cb) = n - 1
                        /\ SelectSeq(update_callbacks', LAMBDA x : x # cb) =
                               SelectSeq(update_callbacks, LAMBDA x : x # cb)
                 /\ UNCHANGED <<is_monitoring, monitoring_tasks, tasks,
                                monitoring_targets, objs, change_history, calls>>]_vars

\* a callback registered twice was unregistered once: one registration remains
C29_Witness ==
    /\ ev.op = "unregister_update_callback"
    /\ ev.result = <<TRUE>>
    /\ update_callbacks = ev.args

\* changes are detected by a tick while no callback is registered: nobody is invoked
C29_LaterBatchWitness ==
    /\ ev.batch = <<>> /\ ev.invoked = <<>>
    /\ ev.check # <<>> /\ ev.check[1].changes # <<>>
    /\ update_callbacks = <<>>
    /\ api_calls = MaxOps
    /\ is_monitoring

\* the tasks of a start_monitoring that followed an earlier one
Restarted(k) == k > Len(TaskNames)

\* C30: the targets, their baselines, the callbacks and the history are left as
\* they are by every step of stop_monitoring, by the end of a cancelled task and by
\* start_monitoring; a start_monitoring on a stopped monitor sets the flag and puts
\* five new tasks into the task table; and a poller of a restart compares a
\* snapshot against the baseline stored by the last successful poll of that target
\* and type, whenever that was, and emits the changes of the comparison.
C30_RestartKeepsBaselines ==
    /\ [](ev.op = "poller_fetch_return" /\ Restarted(ev.task) =>
             LET c == ev.check[1]
                 t == c.condition_type
             IN  /\ t \in DOMAIN c.last_before =>
                        t \in DOMAIN c.before /\ c.before[t] = c.last_before[t]
                 /\ c.fetched.ok /\ t \in DOMAIN c.before =>
                        c.changes = detect_changes(t, c.before[t], c.fetched.data,
                                                   objs[c.obj].route, now)
                 /\ Len(change_history) = ev.hist_len + Len(c.changes))
    /\ [][ev'.op \in {"stop_monitoring", "stop_resume", "task_cancelled",
                      "start_monitoring"}
              => /\ UNCHANGED <<monitoring_targets, objs, update_callbacks,
                                change_history>>
                 /\ (ev'.op = "start_monitoring" /\ ~is_monitoring) =>
                        /\ is_monitoring'
                        /\ Len(tasks') = Len(tasks) + Len(TaskNames)
                        /\ Len(monitoring_tasks') = Len(TaskNames)
                        /\ \A i \in 1..Len(TaskNames) :
                               /\ monitoring_tasks'[i] = Len(tasks) + i
                               /\ tasks'[Len(tasks) + i].name = TaskNames[i]
                               /\ tasks'[Len(tasks) + i].pc = "top"
                        /\ \A k \in 1..Len(tasks) : tasks'[k] = tasks[k]]_vars

\* a baseline was stored by a poller of the first start, monitoring was stopped and
\* all tasks of the first start ended, monitoring was started again, and the first
\* check of a poller of the restart emits changes against that baseline
C30_Witness ==
    /\ ev.op = "poller_fetch_return" /\ Restarted(ev.task)
    /\ tasks[ev.task].checks = 1
    /\ ev.check[1].changes # <<>>
    /\ api_calls = MaxOps
    /\ \A k \in 1..Len(TaskNames) : tasks[k].pc = "done"
    /\ \E k \in 1..Len(TaskNames) : tasks[k].checks = 1
    /\ \A c \in 1..MaxCalls : calls[c] = Idle

-----------------------------------------------------------------------------
(* Properties of overlapping checks (SpecOverlap) and of the tasks (Spec) *)

\* a provider call for the same target and type as the check just completed is
\* still in flight
OtherInFlight ==
    LET c == ev.check[1]
    IN  \/ \E k \in 1..Len(tasks) :
               /\ tasks[k].pc = "fetch" /\ tasks[k].cur = c.obj
               /\ tasks[k].condition_type = c.condition_type
        \/ \E d \in 1..MaxCalls :
               /\ calls[d].op = "check" /\ calls[d].pc = "fetch"
               /\ calls[d].obj = c.obj /\ calls[d].condition_type = c.condition_type

\* C31: a check whose fetch returned compares against the baseline entry stored at
\* that moment, which is the snapshot of the check of that (target, type) that
\* completed last, whether or not that was the entry stored when its own fetch
\* began, and leaves its own snapshot as the baseline: of two overlapping checks
\* the later one compares against the snapshot of the earlier one and the last
\* writer wins.
C31_LastWriterWins ==
    (ev.check # <<>> /\ ev.check[1].fetched.ok) =>
        LET c == ev.check[1]
            t == c.condition_type
        IN  /\ t \in DOMAIN c.last_before =>
                   /\ t \in DOMAIN c.before /\ c.before[t] = c.last_before[t]
                   /\ c.changes = detect_changes(t, c.last_before[t], c.fetched.data,
                                                 objs[c.obj].route, now)
            /\ t \notin DOMAIN c.last_before => c.changes = <<>>
            /\ t \in DOMAIN objs[c.obj].baseline_data
            /\ objs[c.obj].baseline_data[t] = c.fetched.data
            /\ last_ok[c.obj][t] = c.fetched.data

\* a tick and the one check_conditions_now made so far began their provider calls
\* for a (target, type) against the same baseline; the tick finished second, has
\* compared against the snapshot the call stored meanwhile, and emitted changes
C31_Witness ==
    /\ ev.op = "poller_fetch_return" /\ api_calls = 2
    /\ ev.check # <<>> /\ ev.check[1].fetched.ok
    /\ ev.check[1].seen # <<>>
    /\ ev.check[1].condition_type \in DOMAIN ev.check[1].before
    /\ ev.check[1].seen # <<ev.check[1].before[ev.check[1].condition_type]>>
    /\ ev.check[1].changes # <<>>
    /\ ~OtherInFlight

\* the first of two overlapping checks has finished while the other is in flight
C31_FirstFinisherWitness ==
    /\ ev.check # <<>> /\ ev.check[1].fetched.ok
    /\ ev.check[1].seen # <<>>
    /\ OtherInFlight

\* C32: a poller that awaits a callback of its batch stays there until that
\* callback returns (or the task is cancelled); it then calls the callbacks that
\* follow in the list and goes to its sleep only when none of them is left
\* awaited; it begins no provider call meanwhile; and a tick that ends with a
\* non-empty batch goes to its sleep in the same step only when every registered
\* callback was called and has returned.
C32_DispatchInline ==
    [][\A k \in 1..Len(tasks) :
          LET t == tasks[k]
              u == tasks'[k]
          IN  /\ (t.pc = "notify" /\ u # t) =>
                     \/ u = [t EXCEPT !.must_cancel = TRUE]
                     \/ ev'.op = "task_cancelled" /\ u.pc = "done"
                     \/ /\ ev'.op = "poller_notify_return"
                        /\ fetches' = fetches
                        /\ ev'.invoked # <<>> => ev'.batch = t.changes
                        /\ \/ /\ u.pc = "top"
                              /\ ev'.invoked = SubSeq(update_callbacks, t.cbi + 1,
                                                      Len(update_callbacks))
                              /\ \A i \in 1..Len(ev'.invoked) : ev'.invoked[i] # "cb_async"
                           \/ /\ u.pc = "notify" /\ u.cbi > t.cbi
                              /\ u.changes = t.changes
                              /\ ev'.invoked = SubSeq(update_callbacks, t.cbi + 1, u.cbi)
                              /\ update_callbacks[u.cbi] = "cb_async"
              /\ (t.pc = "fetch" /\ u.pc = "top" /\ ev'.op = "poller_fetch_return"
                    /\ ev'.check[1].acc \o ev'.check[1].changes # <<>>) =>
                     /\ ev'.invoked = update_callbacks
                     /\ \A i \in 1..Len(update_callbacks) : update_callbacks[i] # "cb_async"
     ]_vars

\* while the poller of one condition type awaits a callback, the poller of another
\* type has begun a tick and is in its provider call
C32_Witness ==
    /\ ev.op = "poller_loop"
    /\ tasks[ev.task].pc = "fetch"
    /\ \E k \in 1..Len(tasks) :
           /\ tasks[k].pc = "notify"
           /\ tasks[k].condition_type # tasks[ev.task].condition_type

\* C33: a step that completes a check of (target, type) leaves every baseline entry
\* of another target and every entry of that target for another condition type as
\* it was, absent or present with the same snapshot; the changes it emits are of
\* that condition type and come from that entry alone.
C33_CheckTouchesOneEntry ==
    [][ev'.check # <<>> /\ ev'.op \in {"poller_fetch_return", "call_fetch_return"} =>
          LET c == ev'.check[1]
          IN  /\ Len(objs') = Len(objs)
              /\ \A i \in 1..Len(objs), u \in AllTypes :
                     (i # c.obj \/ u # c.condition_type) =>
                         StoredEntry(objs', i, u) = StoredEntry(objs, i, u)
              /\ \A i \in 1..Len(objs) : DOMAIN objs'[i].baseline_data \subseteq AllTypes
              /\ \A j \in 1..Len(c.changes) :
                     c.changes[j].condition_type = c.condition_type
              /\ c.changes =
                     IF c.fetched.ok /\ StoredEntry(objs, c.obj, c.condition_type) # <<>>
                     THEN detect_changes(c.condition_type,
                                         StoredEntry(objs, c.obj, c.condition_type)[1],
                                         c.fetched.data, objs[c.obj].route, now)
                     ELSE <<>>
     ]_vars

\* a poller has stored a snapshot for a target that had a baseline entry of another
\* condition type, which is still there
C33_Witness ==
    /\ ev.op = "poller_fetch_return" /\ ev.check[1].fetched.ok
    /\ \E u \in DOMAIN ev.check[1].before :
           /\ u # ev.check[1].condition_type
           /\ objs[ev.check[1].obj].baseline_data[u] = ev.check[1].before[u]
    /\ ev.check[1].condition_type \in DOMAIN objs[ev.check[1].obj].baseline_data

\* the live pollers of condition type t
LivePollers(t) ==
    {k \in 1..Len(tasks) :
        Live(tasks[k]) /\ IsPoller(k) /\ tasks[k].condition_type = t}

\* the tasks of the task table
TableTasks == {monitoring_tasks[i] : i \in 1..Len(monitoring_tasks)}

\* C34: in every reachable state there is at most one live poller task for each
\* condition type, and every monitoring task that has not ended is in the task
\* table.
C34_OnePollerPerType ==
    /\ \A t \in AllTypes : Cardinality(LivePollers(t)) <= 1
    /\ UnfinishedTasks \subseteq TableTasks

\* start_monitoring was called while stop_monitoring awaited its first task; the
\* stop has returned since: the monitor is monitoring with an empty task table,
\* no call is in progress, and pollers on which cancel() was never called run on
C34_Witness ==
    /\ is_monitoring
    /\ monitoring_tasks = <<>>
    /\ \A c \in 1..MaxCalls : calls[c] = Idle
    /\ \E k \in 1..Len(TaskNames), j \in (Len(TaskNames) + 1)..Len(tasks) :
           /\ Live(tasks[k]) /\ ~tasks[k].must_cancel /\ IsPoller(k)
           /\ Live(tasks[j]) /\ ~tasks[j].must_cancel /\ IsPoller(j)

\* What holds of C34: as long as start_monitoring has created tasks once, there is
\* at most one live poller for each condition type and every task that has not
\* ended is in the task table.
C34_SingleStart ==
    Len(tasks) <= Len(TaskNames) =>
        /\ \A t \in AllTypes : Cardinality(LivePollers(t)) <= 1
        /\ UnfinishedTasks \subseteq TableTasks

-----------------------------------------------------------------------------
(* Properties of the dispatch under changes of the callback list (SpecTrigger) *)

\* the number of calls of the raw-change callback in the dispatch f
RawCalls(f, callback) ==
    Cardinality({i \in 1..Len(f.log) :
                    /\ f.log[i].kind = "start" /\ f.log[i].set = "raw"
                    /\ f.log[i].cb = callback /\ f.log[i].batch = f.changes})

\* C35: when the dispatch of a batch has returned, every callback that was
\* registered on the monitor when the dispatch began and is registered still was
\* called exactly once with the batch.
C35_EachCallbackOnce ==
    \A c \in 1..MaxCalls :
        (Dispatching(c) /\ calls[c].pc = "returned") =>
            \A k \in 1..Len(calls[c].raw0) :
                Registered(calls[c].raw0[k]) => RawCalls(calls[c], calls[c].raw0[k]) = 1

\* a dispatch has returned in which a callback unregistered itself while it was
\* awaited, and the callback registered behind it, then and now, was passed over
C35_Witness ==
    \E c \in 1..MaxCalls :
        /\ Dispatching(c) /\ calls[c].pc = "returned"
        /\ \E k \in 2..Len(calls[c].raw0) :
               /\ Registered(calls[c].raw0[k])
               /\ RawCalls(calls[c], calls[c].raw0[k]) = 0
               /\ ~Registered(calls[c].raw0[k - 1])
               /\ RawCalls(calls[c], calls[c].raw0[k - 1]) = 1

\* What holds of C35: a dispatch during which the callback list stayed as it was
\* calls every registered callback exactly once with the batch, and no dispatch
\* calls a callback twice.
C35_UndisturbedDispatch ==
    \A c \in 1..MaxCalls :
        Dispatching(c) =>
            /\ \A k \in 1..Len(calls[c].raw0) : RawCalls(calls[c], calls[c].raw0[k]) <= 1
            /\ (calls[c].pc = "returned" /\ update_callbacks = calls[c].raw0) =>
                   \A k \in 1..Len(calls[c].raw0) :
                       RawCalls(calls[c], calls[c].raw0[k]) = 1

-----------------------------------------------------------------------------
(* Properties of the changes and the history (Spec, SpecHistory) *)

\* the snapshots agree on every metric of the threshold table that both carry
SameOnThresholdMetrics(condition_type, old_data, new_data) ==
    \A i \in ComparedEntries(condition_type, old_data, new_data) :
        old_data[initialize_default_thresholds[i].metric]
            = new_data[initialize_default_thresholds[i].metric]

\* C36: every change a check emits has a magnitude greater than 0 or a
\* significance above MINOR, and a check whose snapshot agrees with the baseline on
\* every threshold metric emits no change, appends nothing to the history and, when
\* the round has no change from before, calls no callback.
C36_NoChangeWithoutDifference ==
    Checked =>
        LET c == ev.check[1]
            t == c.condition_type
        IN  /\ \A j \in 1..Len(c.changes) :
                   \/ c.changes[j].change_magnitude.den = 0
                   \/ c.changes[j].change_magnitude.num > 0
                   \/ c.changes[j].significance \in {"moderate", "major", "critical"}
            /\ (c.fetched.ok /\ t \in DOMAIN c.before
                  /\ SameOnThresholdMetrics(t, c.before[t], c.fetched.data)) =>
                   /\ c.changes = <<>>
                   /\ Len(change_history) = ev.hist_len
                   /\ c.acc = <<>> => ev.invoked = <<>> /\ ev.batch = <<>>

\* a tick of a monitor with a registered callback has compared a snapshot that
\* differs from the baseline, but in no metric of the threshold table: no change,
\* nothing appended, nobody called
C36_Witness ==
    /\ ev.op = "poller_fetch_return"
    /\ ev.check[1].fetched.ok
    /\ ev.check[1].condition_type \in DOMAIN ev.check[1].before
    /\ ev.check[1].before[ev.check[1].condition_type] # ev.check[1].fetched.data
    /\ ComparedEntries(ev.check[1].condition_type,
                       ev.check[1].before[ev.check[1].condition_type],
                       ev.check[1].fetched.data) # {}
    /\ SameOnThresholdMetrics(ev.check[1].condition_type,
                              ev.check[1].before[ev.check[1].condition_type],
                              ev.check[1].fetched.data)
    /\ update_callbacks # <<>>
    /\ ev.invoked = <<>>
    /\ change_history = <<>>

\* the batch of a dispatch lies in the history as one run of consecutive entries
RecordedRun(changes) ==
    \E o \in 0..Len(change_history) :
        /\ o + Len(changes) <= Len(change_history)
        /\ SubSeq(change_history, o + 1, o + Len(changes)) = changes

C37_AppendedAtDetection ==
    [][(Checked' /\ ev'.op \in {"poller_fetch_return", "call_fetch_return"}) =>
          LET c == ev'.check[1]
          IN  /\ change_history' = change_history \o c.changes
              /\ ev'.invoked # <<>> => ev'.batch = c.acc \o c.changes]_vars

\* the objects the target table holds
TableObjects == {monitoring_targets[i] : i \in 1..Len(monitoring_targets)} \ {0}

\* C38: adding an id that is registered puts a new target without baselines and
\* without last-checked time in its place and leaves the replaced one out of the
\* table; the baselines of a target change only in a step that completes a
\* successful check of that very target, so a check in flight for the replaced
\* target gives the new one nothing; and a check of a target that has no entry for
\* the condition type emits no change and, when it succeeds, stores the snapshot.
C38_ReAddStartsAfresh ==
    [][/\ (ev'.op = "add_monitoring_target"
              /\ DictSlot(monitoring_targets, ev'.args[1]) # 0) =>
             LET slot == DictSlot(monitoring_targets, ev'.args[1])
                 old == monitoring_targets[slot]
                 new == monitoring_targets'[slot]
             IN  /\ new = Len(objs) + 1
                 /\ objs'[new].target_id = objs[old].target_id
                 /\ objs'[new].baseline_data = NoBaseline
                 /\ objs'[new].last_checked = NeverChecked
                 /\ objs'[old] = objs[old]
                 /\ old \notin {monitoring_targets'[i] : i \in 1..Len(monitoring_targets')}
       /\ \A i \in 1..Len(objs) :
              objs'[i].baseline_data # objs[i].baseline_data =>
                  /\ ev'.check # <<>>
                  /\ ev'.check[1].obj = i /\ ev'.check[1].fetched.ok
       /\ (ev'.check # <<>> /\ ev'.op \in {"poller_fetch_return", "call_fetch_return"}) =>
             LET c == ev'.check[1]
             IN  c.condition_type \notin DOMAIN objs[c.obj].baseline_data =>
                     /\ c.changes = <<>>
                     /\ change_history' = change_history
                     /\ c.fetched.ok =>
                            StoredEntry(objs', c.obj, c.condition_type) = <<c.fetched.data>>
      ]_vars

\* C38 witness: a poll of a target that replaced one of the same id has succeeded
\* and emitted no change, although the replaced target holds a baseline of that
\* condition type against which the snapshot would have been a change
C38_Witness ==
    /\ ev.check # <<>> /\ ev.op \in {"poller_fetch_return", "call_fetch_return"}
    /\ LET c == ev.check[1]
       IN  /\ c.fetched.ok /\ c.obj \in TableObjects
           /\ c.condition_type \notin DOMAIN c.before
           /\ c.changes = <<>>
           /\ \E old \in 1..Len(objs) :
                  /\ old < c.obj /\ objs[old].target_id = objs[c.obj].target_id
                  /\ c.condition_type \in DOMAIN objs[old].baseline_data
                  /\ detect_changes(c.condition_type,
                                    objs[old].baseline_data[c.condition_type],
                                    c.fetched.data, objs[c.obj].route, now) # <<>>

\* a check that was in flight when its target was replaced has succeeded: the
\* replaced target holds the snapshot, the target in the table has no baseline
C38_InFlightWitness ==
    /\ ev.check # <<>> /\ ev.op \in {"poller_fetch_return", "call_fetch_return"}
    /\ LET c == ev.check[1]
       IN  /\ c.fetched.ok /\ c.obj \notin TableObjects
           /\ c.condition_type \in DOMAIN objs[c.obj].baseline_data
           /\ \E new \in TableObjects :
                  /\ new > c.obj /\ objs[new].target_id = objs[c.obj].target_id
                  /\ objs[new].baseline_data = NoBaseline

\* timestamps do not decrease along the history
Chronological(history) ==
    \A i, j \in 1..Len(history) : i <= j => history[i].timestamp <= history[j].timestamp

\* the history after a step is the history before it without some entries at its
\* front, followed by entries stamped with the present time
FrontDroppedEndAppended ==
    \E d \in 0..Len(change_history) :
        LET kept == Len(change_history) - d
        IN  /\ Len(change_history') >= kept
            /\ SubSeq(change_history', 1, kept) =
                   SubSeq(change_history, d + 1, Len(change_history))
            /\ \A i \in (kept + 1)..Len(change_history') :
                   change_history'[i].timestamp = now

\* C39: in every reachable state the timestamps are non-decreasing along the
\* history, and every step leaves the history as it was, appends entries at its end
\* or drops entries from its front.
C39_HistoryChronological ==
    /\ [](Chronological(change_history))
    /\ [][FrontDroppedEndAppended]_vars

\* C39 witness: a compaction run has dropped entries from a history that runs over
\* more than one hour, and what it kept starts earlier than it ends
C39_Witness ==
    /\ ev.op = "cleanup_change_history"
    /\ ev.hist_len > Len(change_history)
    /\ Len(change_history) >= 2
    /\ change_history[1].timestamp < change_history[Len(change_history)].timestamp

\* C39, in the monitor (SpecOverlap): a check has appended its changes to a
\* history that held the entries of an earlier check
C39_MonitorWitness ==
    /\ ev.check # <<>> /\ ev.check[1].changes # <<>>
    /\ Len(change_history) > Len(ev.check[1].changes)

=============================================================================
